---- MODULE Spec2Model ----
(***************************************************************************)
(* The fleet update orchestrator of qubes-core-admin-linux: UpdateManager  *)
(* (a multiprocessing.Pool of update_qube tasks with collect_result as     *)
(* callback), update_qube, UpdateAgentManager.run_agent and the            *)
(* QubeConnection context manager, in both copies the repository holds:    *)
(* vmupdate/ (archive transfer, cleanup flag) and qubesupdate/ (one shell  *)
(* script per transfer, one per entrypoint run).                           *)
(***************************************************************************)
EXTENDS Integers, Sequences, FiniteSets, TLC

\* ------------------------------------------------------------- bounds
NumTargets == 2
MaxConcurrency == 2
\* Longest stdout and longest stderr given to _collect_output.
MaxLen == 2
\* Most names in the comma separated list of --targets.
MaxNames == 2
\* Most files in the agent source directory given to transfer_agent.
MaxFiles == 2

\* Packages the requirements and the package state speak of.
MaxPackages == 2

\* Progress callbacks an APTProgressReporter receives.
MaxCalls == 3

Names == <<"A", "B", "C", "D">>
Targets == {Names[i] : i \in 1..NumTargets}

\* Statuses a command run in a qube may end with: killed by a signal
\* (negative returncode), success, a failure code.
ExitStatuses == {-9, 0, 5}

Variants == {"vmupdate", "qubesupdate"}

VARIABLES
    variant,          \* which copy of the orchestrator runs
    max_concurrency,  \* UpdateManager.max_concurrency
    show_output,      \* UpdateManager.show_output
    cleanup,          \* UpdateManager.cleanup (vmupdate only)
    domains,          \* names in app.domains when the tasks look them up
    runpc,            \* position of UpdateManager.run
    queue,            \* tasks submitted to the pool, not yet taken by a worker
    outqueue,         \* results returned by tasks, not yet given to the callback
    exit_code,        \* UpdateManager.exit_code
    returned,         \* value returned by UpdateManager.run
    reported,         \* per target: the results collect_result was called with
    task,             \* per target: the state of its update_qube call
    vm,               \* per target: the qube itself (shared with other actors)
    hist,             \* per target: what the session did (history)
    untrusted_stdout, \* _collect_output: bytes of the command's stdout
    untrusted_stderr, \* _collect_output: bytes of the command's stderr
    force_color,      \* _collect_output: keep control characters
    stdout_lines,     \* _collect_output: the lines it returns
    sanpc,            \* position of the _collect_output call
    argv,             \* vmupdate.main: the flags on the command line
    args,             \* vmupdate.main: the parsed command line
    targets,          \* vmupdate.main: the list get_targets returned
    mainpc,           \* position of vmupdate.main
    pending,          \* run_update: tasks of the current run not yet begun
    open,             \* per qube: sessions of main under way
    started,          \* per qube: sessions main has begun so far
    phases,           \* main: exit codes of the two runs and of main
    ended,            \* per qube: exit codes of its collected sessions
    qc,              \* a QubeConnection used on its own, and its qube
    sent,             \* the commands its last call sent to the qube
    ret,              \* how its last call ended
    handler,          \* the pool's result handler running collect_result
    agent,            \* one call of the agent's PackageManager.upgrade
    reqs,             \* one call of PackageManager.install_requirements
    packages,         \* one call of PackageManager.compare_packages
    dnf,              \* one call of DNF.upgrade_internal
    dnfrefresh,       \* one call of DNF.refresh
    progress          \* an APTProgressReporter and what its callback got

vars == <<variant, max_concurrency, show_output, cleanup, domains, runpc,
          queue, outqueue, exit_code, returned, reported, task, vm, hist,
          untrusted_stdout, untrusted_stderr, force_color, stdout_lines,
          sanpc, argv, args, targets, mainpc, pending, open, started,
          phases, ended, qc, sent, ret, handler, agent, reqs, packages,
          dnf, dnfrefresh, progress>>

\* Calls of single functions of the agent.
tools == <<packages, dnf, dnfrefresh, progress>>

config == <<variant, max_concurrency, show_output, cleanup, domains>>

\* The call of _collect_output: its arguments, its result, its position.
sanitizer == <<untrusted_stdout, untrusted_stderr, force_color,
               stdout_lines, sanpc>>

\* The state of one call of vmupdate.main.
launcher == <<argv, args, targets, mainpc, pending, open, started,
              phases, ended>>

\* A QubeConnection whose methods are called one by one.
connection == <<qc, sent, ret>>

\* What an update run leaves alone.
outside == <<sanitizer, launcher, connection, handler, agent, reqs,
             tools>>

\* The state of the update run.
orchestrator == <<config, runpc, queue, outqueue, exit_code, returned,
                  reported, task, vm, hist>>

\* ------------------------------------------------------------ helpers
Max(a, b) == IF a >= b THEN a ELSE b

\* The locals of one update_qube call and the fields of its QubeConnection.
NewTask == [pc |-> "queued", initially_running |-> "None",
            connected |-> FALSE, exc |-> FALSE,
            exit_code |-> 0, return_data |-> "unset"]

\* What a session did, kept for the properties.
NewHist == [was_running |-> "None", queried |-> FALSE, nCmd |-> 0,
            nCleanup |-> 0, nShutdown |-> 0, shutStarter |-> "none",
            transferFailed |-> FALSE, envRaised |-> FALSE,
            codeRaised |-> FALSE, entryRan |-> FALSE, entryStatus |-> 0,
            nExit |-> 0, cleanupFailed |-> FALSE, exitRaised |-> "none",
            closed |-> FALSE, hasOutput |-> FALSE, steps |-> <<>>]

\* No call of _collect_output is under way.
NoSanitizerCall ==
    /\ untrusted_stdout = <<>>
    /\ untrusted_stderr = <<>>
    /\ force_color = FALSE
    /\ stdout_lines = <<>>
    /\ sanpc = "idle"

\* app.domains as vmupdate.main sees it: name and klass of every qube.
Domains == <<[name |-> "dom0", klass |-> "AdminVM"],
             [name |-> "tpl", klass |-> "TemplateVM"],
             [name |-> "work", klass |-> "AppVM"],
             [name |-> "sa", klass |-> "StandaloneVM"],
             [name |-> "disp", klass |-> "DispVM"]>>

DomainNames == {Domains[i].name : i \in 1..Len(Domains)}

\* Names that may stand in --targets: the qubes and one that does not
\* exist.
ArgNames == DomainNames \cup {"ghost"}

\* main has not called run_update yet.
NoPhases == [exit_code_templates |-> 0, exit_code_rest |-> 0, returned |-> 0]

\* vmupdate.main is not called.
NoMain ==
    /\ argv = {}
    /\ args = [templates |-> FALSE, standalones |-> FALSE, app |-> FALSE,
               all |-> FALSE, targets |-> <<>>, max_concurrency |-> 1,
               no_cleanup |-> TRUE]
    /\ phases = NoPhases
    /\ ended = [n \in ArgNames |-> <<>>]
    /\ targets = <<>>
    /\ mainpc = "idle"
    /\ pending = <<>>
    /\ open = [n \in ArgNames |-> 0]
    /\ started = [n \in ArgNames |-> 0]

\* The arguments of a call that has none.
NoArgs == [log |-> ""]

\* How a call of a QubeConnection method ended: whether the connection
\* was connected when it began, the exception it raised, the exit code it
\* returned, and for run_entrypoint its arguments.
NoCall == [call |-> "none", was_connected |-> FALSE, raised |-> "none",
           exit_code |-> 0, chmod_status |-> 0, entry_status |-> 0,
           files |-> 0, agent_args |-> NoArgs, entry_output |-> <<>>,
           output |-> <<>>]

\* No QubeConnection is used on its own.
NoConnection ==
    /\ qc = [connected |-> FALSE, initially_running |-> "None",
             cleanup |-> FALSE, is_running |-> FALSE]
    /\ sent = <<>>
    /\ ret = NoCall

\* Mutant of ResultHandlers: two threads run the callbacks.
ResultHandlers_two == {1, 2}

\* multiprocessing.Pool(...) has one result-handler thread, which runs the
\* callback given to apply_async for one result after the other.
ResultHandlers == {1}

NoResult == [name |-> "", exit_code |-> 0, result |-> ""]

\* The result handler has nothing to do: no task was given to a pool.
IdleHandler ==
    [pc |-> [h \in ResultHandlers |-> "idle"],
     cur |-> [h \in ResultHandlers |-> NoResult],
     seen |-> [h \in ResultHandlers |-> 0],
     stdout |-> <<>>, ended |-> {}, left |-> {}]

NoHandler == handler = IdleHandler

\* The arguments and locals of a call of PackageManager.upgrade that has
\* not begun: which copy of the agent, refresh, hard_fail, whether
\* requirements are given, the position, exit_code, the commands and
\* steps that ran with their statuses, and the value returned.
NewUpgrade(copy, refresh, hard_fail, requirements) ==
    [copy |-> copy, refresh |-> refresh, hard_fail |-> hard_fail,
     requirements |-> requirements, pc |-> "refresh", exit_code |-> 0,
     ran |-> <<>>, returned |-> 0]

\* PackageManager.upgrade is not called.
NoUpgrade ==
    agent = [NewUpgrade("vmupdate", FALSE, FALSE, FALSE)
                EXCEPT !.pc = "not called"]

\* install_requirements is not called.
NoRequirements ==
    reqs = [requirements |-> <<>>, curr_pkg |-> <<>>, pc |-> "not called",
            to_install |-> {}, to_upgrade |-> {}, cmds |-> <<>>,
            exit_code |-> 0]

\* compare_packages is not called.
NoCompare ==
    packages = [old |-> <<>>, new |-> <<>>, pc |-> "not called",
                installed |-> <<>>, updated |-> <<>>, removed |-> <<>>]

\* DNF.upgrade_internal is not called.
NoDnfUpgrade ==
    dnf = [copy |-> "vmupdate", initial |-> 0, trans |-> FALSE,
           install_set |-> <<>>, raises |-> "none", pc |-> "not called",
           checked |-> <<>>, transaction |-> FALSE, returned |-> 0]

\* DNF.refresh is not called.
NoDnfRefresh ==
    dnfrefresh = [copy |-> "agent", clean |-> 0, check |-> 0,
                  pc |-> "not called", return_code |-> 0]

\* No APTProgressReporter is made.
NoProgress ==
    progress = [copy |-> "vmupdate", phase |-> "none", last_percent |-> 0,
                calls |-> 0, reported |-> <<>>]

\* No function of the agent is called on its own.
NoTools == NoCompare /\ NoDnfUpgrade /\ NoDnfRefresh /\ NoProgress

\* UpdateManager.__init__ and the environment the run starts in.
Init ==
    /\ NoSanitizerCall
    /\ NoMain
    /\ NoConnection
    /\ NoHandler
    /\ NoUpgrade
    /\ NoRequirements
    /\ NoTools
    /\ variant \in Variants
    /\ max_concurrency \in 1..MaxConcurrency
    /\ show_output \in BOOLEAN
    /\ cleanup \in (IF variant = "vmupdate" THEN BOOLEAN ELSE {TRUE})
    /\ domains \in SUBSET Targets
    /\ \E r \in [Targets -> BOOLEAN] :
         vm = [t \in Targets |->
                 [running |-> (t \in domains /\ r[t]),
                  starter |-> IF t \in domains /\ r[t] THEN "other" ELSE "none",
                  stopping |-> FALSE]]
    /\ runpc = "new"
    /\ queue = <<>>
    /\ outqueue = <<>>
    /\ exit_code = 0
    /\ returned = 0
    /\ reported = [t \in Targets |-> <<>>]
    /\ task = [t \in Targets |-> NewTask]
    /\ hist = [t \in Targets |-> NewHist]

\* ------------------------------------------------------- the qube
\* A command sent to a halted qube starts it (qvm-run, run_with_args and
\* run_service all autostart); one that fails leaves the qube as it was.
Autostart(t, ok) ==
    IF ok /\ ~vm[t].running
    THEN [vm EXCEPT ![t] = [running |-> TRUE, starter |-> "conn",
                            stopping |-> FALSE]]
    ELSE vm

\* Another actor (the user, another tool) starts a halted qube while the
\* session is open.
OtherActorStarts(t) ==
    /\ task[t].connected
    /\ ~vm[t].running
    /\ vm' = [vm EXCEPT ![t] = [running |-> TRUE, starter |-> "other",
                                stopping |-> FALSE]]
    /\ UNCHANGED <<config, outside,
                   runpc, queue, outqueue, exit_code, returned,
                   reported, task, hist>>

\* A qube asked to shut down halts.
QubeHalts(t) ==
    /\ vm[t].running
    /\ vm[t].stopping
    /\ vm' = [vm EXCEPT ![t] = [running |-> FALSE, starter |-> "none",
                                stopping |-> FALSE]]
    /\ UNCHANGED <<config, outside,
                   runpc, queue, outqueue, exit_code, returned,
                   reported, task, hist>>

\* ------------------------------------------------- UpdateManager.run
Finished(t) == task[t].pc \in {"done", "crashed"}
Running(t) == task[t].pc \notin {"queued", "done", "crashed"}

\* pool = Pool(max_concurrency); apply_async for every qube; pool.close()
Run ==
    /\ runpc = "new"
    /\ runpc' = "joining"
    /\ queue' = [i \in 1..NumTargets |-> Names[i]]
    /\ UNCHANGED <<config, outside,
                   outqueue, exit_code, returned, reported, task,
                   vm, hist>>

\* Mutant of JoinDone: run stops waiting once a failure was collected.
JoinDone_fail_fast ==
    \/ /\ queue = <<>>
       /\ \A t \in Targets : task[t].pc \in {"done", "crashed"}
       /\ outqueue = <<>>
    \/ exit_code # 0

\* Mutant of JoinDone: join waits for the workers only, not for the
\* result handler.
JoinDone_workers_only ==
    /\ queue = <<>>
    /\ \A t \in Targets : task[t].pc \in {"done", "crashed"}

\* pool.join(): every worker has exited and the result handler has run
\* the callback of every result.
JoinDone ==
    /\ queue = <<>>
    /\ \A t \in Targets : Finished(t)
    /\ outqueue = <<>>

\* pool.join() returns; return self.exit_code
RunReturn ==
    /\ runpc = "joining"
    /\ JoinDone
    /\ runpc' = "returned"
    /\ returned' = exit_code
    /\ UNCHANGED <<config, outside,
                   queue, outqueue, exit_code, reported, task,
                   vm, hist>>

\* self.exit_code = max(self.exit_code, exit_code)
collect_exit_code(old, code) == Max(old, code)

\* The pool's result handler calls the callback with the next result.
collect_result ==
    /\ outqueue # <<>>
    /\ LET r == Head(outqueue) IN
         /\ exit_code' = collect_exit_code(exit_code, r.exit_code)
         /\ reported' = [reported EXCEPT ![r.name] = Append(@, r)]
    /\ outqueue' = Tail(outqueue)
    /\ UNCHANGED <<config, outside,
                   runpc, queue, returned, task, vm, hist>>

\* ------------------------------------------------------- update_qube
\* return qname, 2, "ERROR (qube not found)"
NotFoundResult(t) ==
    [name |-> t, exit_code |-> 2, result |-> "ERROR (qube not found)"]

\* return qname, 1, "ERROR (exception {})".format(str(e))
ExceptionResult(t) ==
    [name |-> t, exit_code |-> 1, result |-> "ERROR (exception)"]

\* Mutant of update_qube_return: the not-found branch returns nothing.
update_qube_return_no_value(t, r) ==
    /\ task' = [task EXCEPT ![t] = [NewTask EXCEPT !.pc = "done"]]
    /\ outqueue' = IF r.exit_code = 2 THEN outqueue ELSE Append(outqueue, r)

\* The task ends with result r: the worker puts it on the pool's result
\* queue and is free for the next task; the call's locals are gone.
update_qube_return(t, r) ==
    /\ task' = [task EXCEPT ![t] = [NewTask EXCEPT !.pc = "done"]]
    /\ outqueue' = Append(outqueue, r)

\* Mutant of update_qube_except: no except clause, the error leaves the
\* task and the pool drops it (apply_async has no error_callback).
update_qube_except_propagates(t) ==
    /\ task' = [task EXCEPT ![t] = [NewTask EXCEPT !.pc = "crashed"]]
    /\ UNCHANGED outqueue

\* except Exception as e: the error becomes the task's result.
update_qube_except(t) ==
    update_qube_return(t, ExceptionResult(t))

\* Mutant of qube_not_found: the lookup never fails.
qube_not_found_never(t) == FALSE

\* try: qube = app.domains[qname] / except KeyError
qube_not_found(t) == t \notin domains

\* Mutant of worker_free: a worker is started for every task at once.
worker_free_always == TRUE

\* Pool(self.max_concurrency): a task is taken only by one of the
\* max_concurrency workers, each of which runs one task at a time.
worker_free ==
    Cardinality({u \in Targets : Running(u)}) < max_concurrency

\* A free worker takes the next task: the qube is looked up, the
\* UpdateAgentManager constructed (it opens the per-qube log file, which
\* may raise), run_agent called and the connection entered:
\* self._initially_running = self.qube.is_running() (which may raise, and
\* then __exit__ is not run); self.__connected = True.
update_qube_start(t) ==
    /\ runpc = "joining"
    /\ queue # <<>>
    /\ Head(queue) = t
    /\ worker_free
    /\ queue' = Tail(queue)
    /\ IF qube_not_found(t)
       THEN /\ update_qube_return(t, NotFoundResult(t))
            /\ UNCHANGED hist
       ELSE \E o \in {"constructor raises", "is_running raises", "entered"} :
              IF o = "entered"
              THEN /\ task' = [task EXCEPT
                         ![t].initially_running =
                             IF vm[t].running THEN "running" ELSE "halted",
                         ![t].connected = TRUE,
                         ![t].pc = "transfer"]
                   /\ hist' = [hist EXCEPT
                         ![t].queried = TRUE,
                         ![t].was_running =
                             IF vm[t].running THEN "running" ELSE "halted",
                         ![t].steps = Append(@, "was_running")]
                   /\ UNCHANGED outqueue
              ELSE /\ update_qube_except(t)
                   /\ hist' = [hist EXCEPT
                         ![t].queried = (o = "is_running raises"),
                         ![t].envRaised = TRUE]
    /\ UNCHANGED <<config, outside,
                   runpc, exit_code, returned, reported, vm>>

\* ---------------------------------------------------- QubeConnection
\* An exception inside the with body: __exit__ runs, then it propagates.
BodyRaises(t, byEnv) ==
    /\ task' = [task EXCEPT ![t].exc = TRUE, ![t].pc = "exit"]
    /\ hist' = [hist EXCEPT ![t].envRaised = @ \/ byEnv,
                            ![t].codeRaised = @ \/ ~byEnv]
    /\ UNCHANGED vm

\* Mutant of next_step: the entrypoint is followed by another transfer.
next_step_transfer_again(step) ==
    IF step = "transfer" THEN "entrypoint" ELSE "transfer"

\* The body of the with statement of run_agent: qc.transfer_agent(src_dir)
\* returns, then qc.run_entrypoint(...) is called and returns, then the
\* with statement is left through __exit__.
next_step(step) ==
    IF step = "transfer" THEN "entrypoint" ELSE "exit"

\* The os.system calls of transfer_agent, n of them, of which some may
\* fail: the statuses are not looked at.
TransferCommands(t, n, anyOk, allOk) ==
    /\ task' = [task EXCEPT ![t].pc = next_step("transfer")]
    /\ hist' = [hist EXCEPT ![t].nCmd = @ + n,
                            ![t].transferFailed = ~allOk,
                            ![t].steps = Append(@, "transfer")]
    /\ vm' = Autostart(t, anyOk)

\* Number of os.system calls of transfer_agent: vmupdate sends mkdir, the
\* archive and tar; qubesupdate one script.
TransferCalls == IF variant = "vmupdate" THEN 3 ELSE 1

\* transfer_agent: assert self.__connected; build the archive (vmupdate:
\* mkdtemp, make_archive) or list the files (qubesupdate: os.listdir),
\* which may raise; then the os.system calls.
transfer_agent(t) ==
    /\ task[t].pc = "transfer"
    /\ IF ~task[t].connected
       THEN BodyRaises(t, FALSE)
       ELSE \E o \in {"raise", "ok", "some fail", "all fail"} :
              /\ (o = "some fail") => TransferCalls > 1
              /\ IF o = "raise"
                 THEN BodyRaises(t, TRUE)
                 ELSE TransferCommands(t, TransferCalls,
                                       o # "all fail", o = "ok")
    /\ UNCHANGED <<config, outside,
                   runpc, queue, outqueue, exit_code, returned,
                   reported>>

\* Mutant of return_data: the output is returned whenever asked for.
return_data_output_if_asked(return_output, has_output, code) ==
    IF return_output THEN "output"
    ELSE IF code = 0 THEN "OK" ELSE "ERROR (exit code)"

\* run_agent: return_data is the output if asked for and not empty,
\* else "OK" or "ERROR (exit code N, details in <log>)".
return_data(return_output, has_output, code) ==
    IF return_output /\ has_output THEN "output"
    ELSE IF code = 0 THEN "OK" ELSE "ERROR (exit code)"

\* The keyword arguments update_qube gives run_agent, which passes them on
\* to run_entrypoint(**kwargs): log=loglevel.
RunAgentKwargs == {"log"}

\* def run_entrypoint(self, entrypoint_path, force_color, agent_args):
\* after two positional arguments the call binds only if the keywords are
\* exactly agent_args; otherwise Python raises TypeError at the call.
run_entrypoint_binds(kwargs) == kwargs = {"agent_args"}

\* Mutant of run_entrypoint_exit_code: the exit code of chmod is dropped.
run_entrypoint_exit_code_last(chmod_status, entry_status) == entry_status

\* exit_code = max(exit_code, exit_code_)
run_entrypoint_exit_code(chmod_status, entry_status) ==
    Max(chmod_status, entry_status)

\* The entrypoint has run, after its chmod, with this exit code and
\* output.
EntrypointDone(t, ncmd, code, has_output) ==
    /\ task' = [task EXCEPT
          ![t].exit_code = code,
          ![t].return_data = return_data(show_output, has_output, code),
          ![t].pc = next_step("entrypoint")]
    /\ hist' = [hist EXCEPT ![t].nCmd = @ + ncmd,
                            ![t].entryRan = TRUE,
                            ![t].entryStatus = code,
                            ![t].hasOutput = has_output,
                            ![t].steps = @ \o <<"chmod", "entrypoint">>]
    /\ vm' = Autostart(t, code = 0)

\* vmupdate run_agent: exit_code, output = qc.run_entrypoint(dest_agent,
\* self.force_color, **kwargs), which sends chmod and the entrypoint; the
\* agent's log is fetched with one more os.system; return_data is chosen.
run_agent_entrypoint(t) ==
    /\ variant = "vmupdate"
    /\ task[t].pc = "entrypoint"
    /\ IF ~run_entrypoint_binds(RunAgentKwargs)
       THEN BodyRaises(t, FALSE)
       ELSE \E chmod_status \in ExitStatuses, entry_status \in ExitStatuses,
               has_output \in BOOLEAN :
              EntrypointDone(t, 3,
                  run_entrypoint_exit_code(chmod_status, entry_status),
                  has_output)
    /\ UNCHANGED <<config, outside,
                   runpc, queue, outqueue, exit_code, returned,
                   reported>>

\* qubesupdate run_agent and run_entrypoint: one shell script (chmod, then
\* the entrypoint) through qubes.VMRootShell; p.returncode is the exit
\* code. run_service may raise.
run_entrypoint_script(t) ==
    /\ variant = "qubesupdate"
    /\ task[t].pc = "entrypoint"
    /\ \E o \in {"raise", "returns"} :
         IF o = "raise"
         THEN BodyRaises(t, TRUE)
         ELSE \E status \in ExitStatuses, has_output \in BOOLEAN :
                EntrypointDone(t, 1, status, has_output)
    /\ UNCHANGED <<config, outside,
                   runpc, queue, outqueue, exit_code, returned,
                   reported>>

\* Mutant of run_agent_leave: an except clause calls __exit__ once more.
run_agent_leave_exit_again(t) ==
    IF task[t].exc /\ hist[t].nExit < 2
    THEN /\ task' = [task EXCEPT ![t].pc = "exit"]
         /\ UNCHANGED outqueue
    ELSE IF task[t].exc
    THEN update_qube_return(t, ExceptionResult(t))
    ELSE update_qube_return(t,
            [name |-> t, exit_code |-> task[t].exit_code,
             result |-> task[t].return_data])

\* The with statement is left: the pending exception goes to update_qube's
\* except clause, otherwise update_qube returns (name, exit_code, result).
run_agent_leave(t) ==
    IF task[t].exc
    THEN update_qube_except(t)
    ELSE update_qube_return(t,
            [name |-> t, exit_code |-> task[t].exit_code,
             result |-> task[t].return_data])

\* Mutant of cleanup_enabled: the flag is not looked at.
cleanup_always == TRUE

\* if self.cleanup: (qubesupdate has no such flag and always removes)
cleanup_enabled == cleanup

\* Mutant of shutdown_wanted: every running qube is shut down.
shutdown_wanted_any_running(is_running, initially_running) == is_running

\* if self.qube.is_running() and not self._initially_running:
shutdown_wanted(is_running, initially_running) ==
    is_running /\ initially_running # "running"

\* Mutant of rm_failure_ignored: CalledProcessError is not caught.
rm_failure_raises == FALSE

\* A failing rm -r does not leave __exit__: _run_shell_command_in_qube
\* catches CalledProcessError (vmupdate) or only reads p.returncode
\* (qubesupdate), and __exit__ does not look at the returncode.
rm_failure_ignored == TRUE

\* Mutant of wait_over: the loop waits for the qube to run.
wait_over_inverted(is_running) == is_running

\* Mutant of wait_over: the loop is left without asking the qube.
wait_over_at_once(is_running) == TRUE

\* while self.qube.is_running(): time.sleep(1)
wait_over(is_running) == ~is_running

\* __exit__ up to the wait for the qube to halt: the 'rm -r dest_dir'
\* command when cleanup is enabled (a failing command, CalledProcessError
\* or a nonzero returncode, is ignored; any other error leaves __exit__ at
\* once), then the shutdown decision; without shutdown the connection is
\* closed and the with statement left.
QubeConnection_exit(t) ==
    /\ task[t].pc = "exit"
    /\ \E o \in {"ok", "rm fails", "rm raises", "is_running raises",
                 "shutdown raises"} :
         LET rm_ok == o \notin {"rm fails", "rm raises"}
             vm1 == IF cleanup_enabled THEN Autostart(t, rm_ok) ELSE vm
             wanted == shutdown_wanted(vm1[t].running,
                                       task[t].initially_running)
             h1 == [hist[t] EXCEPT
                      !.nExit = @ + 1,
                      !.nCmd = IF cleanup_enabled THEN @ + 1 ELSE @,
                      !.nCleanup = IF cleanup_enabled THEN @ + 1 ELSE @,
                      !.steps = IF cleanup_enabled
                                THEN Append(@, "cleanup") ELSE @,
                      !.cleanupFailed = (o = "rm fails"),
                      !.envRaised = @ \/ (o \notin {"ok", "rm fails"}),
                      !.exitRaised = IF o \in {"ok", "rm fails"}
                                     THEN "none" ELSE o]
             h2 == [h1 EXCEPT !.nShutdown = @ + 1,
                              !.steps = Append(@, "shutdown"),
                              !.shutStarter = vm1[t].starter]
         IN /\ (o \in {"rm fails", "rm raises"}) => cleanup_enabled
            /\ (o = "shutdown raises") => wanted
            /\ CASE o = "rm raises"
                      \/ (o = "rm fails" /\ ~rm_failure_ignored) ->
                      /\ update_qube_except(t)
                      /\ hist' = [hist EXCEPT ![t] = h1]
                      /\ UNCHANGED vm
                 [] o = "is_running raises" ->
                      /\ update_qube_except(t)
                      /\ hist' = [hist EXCEPT ![t] = h1]
                      /\ vm' = vm1
                 [] o = "shutdown raises" ->
                      /\ update_qube_except(t)
                      /\ hist' = [hist EXCEPT ![t] = h2]
                      /\ vm' = vm1
                 [] OTHER ->
                      IF wanted
                      THEN /\ task' = [task EXCEPT ![t].pc = "wait"]
                           /\ hist' = [hist EXCEPT ![t] = h2]
                           /\ vm' = [vm1 EXCEPT ![t].stopping = TRUE]
                           /\ UNCHANGED outqueue
                      ELSE /\ run_agent_leave(t)
                           /\ hist' = [hist EXCEPT
                                         ![t] = [h1 EXCEPT !.closed = TRUE]]
                           /\ vm' = vm1
    /\ UNCHANGED <<config, outside,
                   runpc, queue, exit_code, returned, reported>>

\* while self.qube.is_running(): time.sleep(1); then
\* self.__connected = False and the with statement is left.
QubeConnection_exit_wait(t) ==
    /\ task[t].pc = "wait"
    /\ wait_over(vm[t].running)
    /\ run_agent_leave(t)
    /\ hist' = [hist EXCEPT ![t].closed = TRUE]
    /\ UNCHANGED <<config, outside,
                   runpc, queue, exit_code, returned, reported, vm>>

\* ------------------------------------------ _collect_output
\* Bytes a qube may send: NUL, LF, CR, ESC, space, '~', DEL and a byte
\* above 0x7f.
Bytes == {0, 10, 13, 27, 32, 126, 127, 200}

ByteStrings == UNION {[1..n -> Bytes] : n \in 0..MaxLen}

\* Mutant of decode_errors: the default error handler of bytes.decode.
decode_errors_strict == "strict"

\* .decode('ascii', errors='ignore')
decode_errors == "ignore"

IsAscii(b) == b < 128

\* bytes.decode('ascii', errors): a byte above 0x7f raises
\* UnicodeDecodeError under 'strict' and is dropped under 'ignore'.
decode_raises(b, errors) ==
    errors = "strict" /\ \E i \in 1..Len(b) : ~IsAscii(b[i])

decode_ascii(b) == SelectSeq(b, IsAscii)

\* The characters str.splitlines splits at, among those an ASCII decode
\* can produce: \n \v \f \r \x1c \x1d \x1e.
LineBoundaries == {10, 11, 12, 13, 28, 29, 30}

\* str.splitlines() without keepends: the text is cut at every line
\* boundary, \r\n counting as one; the boundaries are not part of the
\* lines and a boundary at the end opens no further line.
RECURSIVE splitlines_from(_, _, _)
splitlines_from(s, i, cur) ==
    IF i > Len(s)
    THEN IF cur = <<>> THEN <<>> ELSE <<cur>>
    ELSE IF s[i] = 13 /\ i < Len(s) /\ s[i + 1] = 10
    THEN <<cur>> \o splitlines_from(s, i + 2, <<>>)
    ELSE IF s[i] \in LineBoundaries
    THEN <<cur>> \o splitlines_from(s, i + 1, <<>>)
    ELSE splitlines_from(s, i + 1, Append(cur, s[i]))

splitlines(s) == splitlines_from(s, 1, <<>>)

\* Mutant of printable: DEL passes the filter.
printable_through_del(c) == 32 <= c /\ c <= 127

\* 0x20 <= ord(c) <= 0x7e
printable(c) == 32 <= c /\ c <= 126

\* Mutant of strip_control: the filter is applied whatever force_color.
strip_control_always(color) == TRUE

\* if not force_color:
strip_control(color) == ~color

\* The lines _collect_output returns for decoded texts out and err.
collected_lines(out, err, color) ==
    LET lines == splitlines(out \o err) IN
    IF strip_control(color)
    THEN [i \in 1..Len(lines) |-> SelectSeq(lines[i], printable)]
    ELSE lines

\* _collect_output(untrusted_stdout, untrusted_stderr, force_color)
collect_output ==
    /\ sanpc = "called"
    /\ IF \/ decode_raises(untrusted_stdout, decode_errors)
          \/ decode_raises(untrusted_stderr, decode_errors)
       THEN /\ sanpc' = "raised"
            /\ UNCHANGED stdout_lines
       ELSE /\ sanpc' = "returned"
            /\ stdout_lines' = collected_lines(decode_ascii(untrusted_stdout),
                                               decode_ascii(untrusted_stderr),
                                               force_color)
    /\ UNCHANGED <<orchestrator, launcher, connection, handler, agent, reqs, tools,
                   untrusted_stdout,
                   untrusted_stderr, force_color>>

\* No update run is under way.
NoRun ==
    /\ variant = "vmupdate"
    /\ max_concurrency = 1
    /\ show_output = FALSE
    /\ cleanup = FALSE
    /\ domains = {}
    /\ vm = [t \in Targets |->
               [running |-> FALSE, starter |-> "none", stopping |-> FALSE]]
    /\ runpc = "new"
    /\ queue = <<>>
    /\ outqueue = <<>>
    /\ exit_code = 0
    /\ returned = 0
    /\ reported = [t \in Targets |-> <<>>]
    /\ task = [t \in Targets |-> NewTask]
    /\ hist = [t \in Targets |-> NewHist]

\* _collect_output is called with any two byte strings.
InitSanitizer ==
    /\ NoRun
    /\ NoHandler
    /\ NoUpgrade
    /\ NoRequirements
    /\ NoTools
    /\ NoMain
    /\ NoConnection
    /\ untrusted_stdout \in ByteStrings
    /\ untrusted_stderr \in ByteStrings
    /\ force_color \in BOOLEAN
    /\ stdout_lines = <<>>
    /\ sanpc = "called"

NextSanitizer == collect_output

SpecSanitizer == InitSanitizer /\ [][NextSanitizer]_vars

\* ------------------------------------------------- vmupdate.main
NameLists == UNION {[1..n -> ArgNames] : n \in 0..MaxNames}

Range(f) == {f[i] : i \in 1..Len(f)}

\* [vm for vm in app.domains.values() if vm.klass == klass]
OfKlass(klass) == SelectSeq(Domains, LAMBDA d : d.klass = klass)

\* Mutant of get_targets: dom0 is not removed from the targets.
get_targets_with_dom0(a) ==
    LET picked == (IF a.templates THEN OfKlass("TemplateVM") ELSE <<>>)
                  \o (IF a.standalones THEN OfKlass("StandaloneVM")
                      ELSE <<>>)
                  \o (IF a.app THEN OfKlass("AppVM") ELSE <<>>)
    IN IF a.all
       THEN SelectSeq(Domains, LAMBDA d : ~(d.klass = "DispVM"))
       ELSE IF a.targets # <<>>
       THEN SelectSeq(Domains, LAMBDA d : d.name \in Range(a.targets))
       ELSE picked

\* Mutant of get_targets: a name of --targets that no qube has is kept.
get_targets_keep_unknown(a) ==
    LET picked == (IF a.templates THEN OfKlass("TemplateVM") ELSE <<>>)
                  \o (IF a.standalones THEN OfKlass("StandaloneVM")
                      ELSE <<>>)
                  \o (IF a.app THEN OfKlass("AppVM") ELSE <<>>)
        unknown == SelectSeq(a.targets, LAMBDA n : n \notin DomainNames)
        chosen == IF a.all
                  THEN SelectSeq(Domains, LAMBDA d : ~(d.klass = "DispVM"))
                  ELSE IF a.targets # <<>>
                  THEN SelectSeq(Domains,
                                 LAMBDA d : d.name \in Range(a.targets))
                       \o [i \in 1..Len(unknown) |->
                              [name |-> unknown[i], klass |-> "AppVM"]]
                  ELSE picked
    IN SelectSeq(chosen, LAMBDA d : d.name # "dom0")

\* get_targets(args, app)
get_targets(a) ==
    LET picked == (IF a.templates THEN OfKlass("TemplateVM") ELSE <<>>)
                  \o (IF a.standalones THEN OfKlass("StandaloneVM")
                      ELSE <<>>)
                  \o (IF a.app THEN OfKlass("AppVM") ELSE <<>>)
        chosen == IF a.all
                  THEN SelectSeq(Domains, LAMBDA d : ~(d.klass = "DispVM"))
                  ELSE IF a.targets # <<>>
                  THEN SelectSeq(Domains,
                                 LAMBDA d : d.name \in Range(a.targets))
                  ELSE picked
    IN SelectSeq(chosen, LAMBDA d : d.name # "dom0")

\* main: args = parse_args(args); targets = get_targets(args, app)
main_get_targets ==
    /\ mainpc = "main"
    /\ targets' = get_targets(args)
    /\ mainpc' = "run templates"
    /\ UNCHANGED <<orchestrator, sanitizer, connection, handler, agent, reqs, tools,
                   argv, args, pending, open, started, phases, ended>>

\* lambda cls: cls == 'TemplateVM'
templates_predicator(cls) == cls = "TemplateVM"

\* Mutant of rest_predicator: the second run takes every target.
rest_predicator_all(cls) == TRUE

\* lambda cls: cls != 'TemplateVM'
rest_predicator(cls) == cls # "TemplateVM"

\* qubes_to_go = [vm for vm in targets if qube_predicator(vm.klass)]
qubes_to_go(phase) ==
    IF phase = "templates"
    THEN SelectSeq(targets, LAMBDA d : templates_predicator(d.klass))
    ELSE SelectSeq(targets, LAMBDA d : rest_predicator(d.klass))

\* cleanup=not args.no_cleanup
manager_cleanup(no_cleanup) == ~no_cleanup

\* run_update up to pool.close(): the UpdateManager is made with
\* max_concurrency and cleanup from the command line and exit_code 0, and
\* run gives the pool one task per qube of qubes_to_go.
run_update(phase) ==
    /\ mainpc = "run " \o phase
    /\ LET q == qubes_to_go(phase) IN
         pending' = [i \in 1..Len(q) |-> q[i].name]
    /\ mainpc' = "join " \o phase
    /\ max_concurrency' = args.max_concurrency
    /\ cleanup' = manager_cleanup(args.no_cleanup)
    /\ exit_code' = 0
    /\ UNCHANGED <<variant, show_output, domains, runpc, queue, outqueue,
                   returned, reported, task, vm, hist,
                   sanitizer, connection, handler, agent, reqs, tools,
                   argv, args, targets, open, started, phases, ended>>

Joining == mainpc \in {"join templates", "join rest"}

RECURSIVE SumOpen(_)
SumOpen(S) ==
    IF S = {} THEN 0
    ELSE LET n == CHOOSE x \in S : TRUE IN open[n] + SumOpen(S \ {n})

\* A free worker of the pool begins update_qube for the next qube.
session_start(n) ==
    /\ Joining
    /\ pending # <<>>
    /\ Head(pending) = n
    /\ SumOpen(ArgNames) < max_concurrency
    /\ pending' = Tail(pending)
    /\ open' = [open EXCEPT ![n] = @ + 1]
    /\ started' = [started EXCEPT ![n] = @ + 1]
    /\ UNCHANGED <<orchestrator, sanitizer, connection, handler, agent, reqs, tools,
                   argv, args, targets, mainpc, phases, ended>>

\* The exit codes update_qube may return for a qube of targets: 2 when
\* the qube has gone since get_targets, 1 for an exception, else the exit
\* code of run_agent, which is reached only if run_entrypoint can be
\* called with run_agent's keyword arguments.
SessionCodes ==
    {NotFoundResult("").exit_code, ExceptionResult("").exit_code} \cup
    (IF run_entrypoint_binds(RunAgentKwargs) THEN ExitStatuses ELSE {})

\* update_qube returns and its result is collected: collect_result folds
\* the exit code into the run's exit_code.
session_end(n) ==
    /\ open[n] > 0
    /\ open' = [open EXCEPT ![n] = @ - 1]
    /\ \E code \in SessionCodes :
         /\ exit_code' = collect_exit_code(exit_code, code)
         /\ ended' = [ended EXCEPT ![n] = Append(@, code)]
    /\ UNCHANGED <<config, runpc, queue, outqueue, returned, reported,
                   task, vm, hist,
                   sanitizer, connection, handler, agent, reqs, tools,
                   argv, args, targets, mainpc, pending,
                   started, phases>>

\* Mutant of main_exit_code: main returns the exit code of the second run.
main_exit_code_rest(exit_code_templates, exit_code_rest) == exit_code_rest

\* return max(exit_code_templates, exit_code_rest)
main_exit_code(exit_code_templates, exit_code_rest) ==
    Max(exit_code_templates, exit_code_rest)

\* pool.join() returns and run_update with it (return runner.run()):
\* the first run gives exit_code_templates, the second exit_code_rest,
\* after which main returns.
run_update_return ==
    /\ Joining
    /\ pending = <<>>
    /\ SumOpen(ArgNames) = 0
    /\ IF mainpc = "join templates"
       THEN /\ mainpc' = "run rest"
            /\ phases' = [phases EXCEPT !.exit_code_templates = exit_code]
       ELSE /\ mainpc' = "returned"
            /\ phases' = [phases EXCEPT
                  !.exit_code_rest = exit_code,
                  !.returned = main_exit_code(phases.exit_code_templates,
                                              exit_code)]
    /\ UNCHANGED <<orchestrator, sanitizer, connection, handler, agent, reqs, tools,
                   argv, args, targets, pending, open,
                   started, ended>>

\* The flags of vmupdate that select targets or set cleanup.
Flags == {"--templates", "--standalones", "--app", "--all", "--no-cleanup"}

\* parse_args: --templates, --standalones, --app and --all are
\* store_true, --no-cleanup is store_false (True unless given), --targets
\* and --max-concurrency store their value.
parse_args(flags, names, m) ==
    [templates |-> "--templates" \in flags,
     standalones |-> "--standalones" \in flags,
     app |-> "--app" \in flags,
     all |-> "--all" \in flags,
     targets |-> names,
     max_concurrency |-> m,
     no_cleanup |-> "--no-cleanup" \notin flags]

\* main is called with a command line parse_args accepts: --all and
\* --targets exclude each other.
InitMain ==
    /\ NoRun
    /\ NoHandler
    /\ NoUpgrade
    /\ NoRequirements
    /\ NoTools
    /\ NoSanitizerCall
    /\ NoConnection
    /\ \E flags \in SUBSET Flags, names \in NameLists,
          m \in 1..MaxConcurrency :
         /\ "--all" \in flags => names = <<>>
         /\ argv = flags
         /\ args = parse_args(flags, names, m)
    /\ targets = <<>>
    /\ mainpc = "main"
    /\ pending = <<>>
    /\ open = [n \in ArgNames |-> 0]
    /\ started = [n \in ArgNames |-> 0]
    /\ phases = NoPhases
    /\ ended = [n \in ArgNames |-> <<>>]

NextMain ==
    \/ main_get_targets
    \/ run_update("templates")
    \/ run_update("rest")
    \/ run_update_return
    \/ \E n \in ArgNames :
         \/ session_start(n)
         \/ session_end(n)

SpecMain == InitMain /\ [][NextMain]_vars

\* ------------------------------- QubeConnection called method by method
\* AgentArgs.DEFAULTS: the options in the order of the dictionary.
AgentOptions == <<"log", "no-refresh", "force-upgrade", "leave-obsolete">>

\* AgentArgs.DEFAULTS[k]["action"]
OptionAction(k) == IF k = "log" THEN "store" ELSE "store_true"

\* k.replace("-", "_")
AttrName(k) ==
    CASE k = "no-refresh" -> "no_refresh"
      [] k = "force-upgrade" -> "force_upgrade"
      [] k = "leave-obsolete" -> "leave_obsolete"
      [] OTHER -> k

\* args_dict[k.replace("-", "_")] raises KeyError when the namespace has
\* no such attribute.
to_cli_args_raises(ns) ==
    \E i \in 1..Len(AgentOptions) : AttrName(AgentOptions[i]) \notin DOMAIN ns

\* AgentArgs.to_cli_args, from option i on.
RECURSIVE to_cli_args_from(_, _)
to_cli_args_from(ns, i) ==
    IF i > Len(AgentOptions) THEN <<>>
    ELSE LET k == AgentOptions[i]
             v == ns[AttrName(k)]
         IN (IF OptionAction(k) = "store_true"
             THEN (IF v THEN <<"--" \o k>> ELSE <<>>)
             ELSE <<"--" \o k, v>>)
            \o to_cli_args_from(ns, i + 1)

to_cli_args(ns) == to_cli_args_from(ns, 1)

\* Namespaces made by AgentArgs.add_arguments.
AgentNamespaces ==
    [log : {"INFO", "DEBUG"}, no_refresh : BOOLEAN,
     force_upgrade : BOOLEAN, leave_obsolete : BOOLEAN]

\* Namespaces made by vmupdate.parse_args, as far as the agent's options
\* go: --no-refresh is store_false, so no_refresh is False when given.
VmupdateNamespaces ==
    [log : {"INFO"}, no_refresh : BOOLEAN, force_refresh : BOOLEAN,
     remove_obsolete : BOOLEAN]

\* Mutant of transfer_commands: one push for every file.
transfer_commands_per_file(files) ==
    <<<<"mkdir", "-p", "dest_dir">>>>
    \o [i \in 1..files |-> <<"cat", ">", "dest_arch">>]
    \o <<<<"tar", "-xzf", "dest_arch">>>>

\* The commands transfer_agent gives to os.system through qvm-run, for a
\* source directory of so many files: they go into one archive.
transfer_commands(files) ==
    <<<<"mkdir", "-p", "dest_dir">>,
      <<"cat", ">", "dest_arch">>,
      <<"tar", "-xzf", "dest_arch">>>>

\* __enter__
qc_enter ==
    /\ qc' = [qc EXCEPT
                 !.initially_running =
                     IF qc.is_running THEN "running" ELSE "halted",
                 !.connected = TRUE]
    /\ sent' = <<>>
    /\ ret' = [NoCall EXCEPT !.call = "__enter__",
                             !.was_connected = qc.connected]
    /\ UNCHANGED <<orchestrator, sanitizer, launcher, handler, agent,
                   reqs, tools>>

\* __exit__, to its end: rm -r when cleanup is set (the command starts a
\* halted qube when it can be run at all), shutdown and the wait when the
\* qube runs and was not running at __enter__, then __connected = False.
qc_exit ==
    /\ \E rm_ok \in BOOLEAN :
         LET running == qc.is_running \/ (qc.cleanup /\ rm_ok) IN
         /\ qc' = [qc EXCEPT
                      !.is_running =
                          running /\ ~shutdown_wanted(running,
                                                      qc.initially_running),
                      !.connected = FALSE]
         /\ sent' = IF qc.cleanup THEN <<<<"rm", "-r", "dest_dir">>>> ELSE <<>>
    /\ ret' = [NoCall EXCEPT !.call = "__exit__",
                             !.was_connected = qc.connected]
    /\ UNCHANGED <<orchestrator, sanitizer, launcher, handler, agent,
                   reqs, tools>>

\* transfer_agent(src_dir): assert self.__connected, then the archive and
\* the three os.system calls, whose statuses are not looked at.
qc_transfer_agent ==
    /\ \E files \in 0..MaxFiles, started_ok \in BOOLEAN :
         IF ~qc.connected
         THEN /\ ret' = [NoCall EXCEPT !.call = "transfer_agent",
                                       !.was_connected = FALSE,
                                       !.files = files,
                                       !.raised = "AssertionError"]
              /\ sent' = <<>>
              /\ UNCHANGED qc
         ELSE /\ ret' = [NoCall EXCEPT !.call = "transfer_agent",
                                       !.was_connected = TRUE,
                                       !.files = files]
              /\ sent' = transfer_commands(files)
              /\ qc' = [qc EXCEPT !.is_running = @ \/ started_ok]
    /\ UNCHANGED <<orchestrator, sanitizer, launcher, handler, agent,
                   reqs, tools>>

\* What a command that ended with status 0 may have written to stdout
\* and stderr, as lines: nothing or something.
Written(command) == {<<>>, <<command>>}

\* _run_shell_command_in_qube: run_with_args raises CalledProcessError for
\* a nonzero status, and then untrusted_stdout_and_stderr = (b"", b"");
\* else what the command wrote is returned as lines.
run_shell_command_in_qube(status, written) ==
    IF status # 0 THEN <<>> ELSE written

\* run_entrypoint(entrypoint_path, force_color, agent_args): chmod u+x is
\* run, then the argument list is built (KeyError when agent_args lacks an
\* option), then the entrypoint is run; there is no check of __connected.
qc_run_entrypoint ==
    /\ \E ns \in AgentNamespaces \cup VmupdateNamespaces,
          chmod_status \in ExitStatuses, entry_status \in ExitStatuses,
          chmod_written \in Written("chmod"),
          entry_written \in Written("entrypoint") :
         LET chmod_output ==
                 run_shell_command_in_qube(chmod_status, chmod_written)
             entry_output ==
                 run_shell_command_in_qube(entry_status, entry_written)
             call == [NoCall EXCEPT !.call = "run_entrypoint",
                                    !.was_connected = qc.connected,
                                    !.agent_args = ns,
                                    !.chmod_status = chmod_status]
             chmod == <<"chmod", "u+x", "entrypoint_path">>
         IN IF to_cli_args_raises(ns)
            THEN /\ ret' = [call EXCEPT !.raised = "KeyError"]
                 /\ sent' = <<chmod>>
                 /\ qc' = [qc EXCEPT !.is_running = @ \/ (chmod_status = 0)]
            ELSE /\ ret' = [call EXCEPT
                              !.entry_status = entry_status,
                              !.exit_code = run_entrypoint_exit_code(
                                                chmod_status, entry_status),
                              !.entry_output = entry_output,
                              !.output = chmod_output \o entry_output]
                 /\ sent' = <<chmod, <<"entrypoint_path">> \o to_cli_args(ns)>>
                 /\ qc' = [qc EXCEPT
                              !.is_running = @ \/ (chmod_status = 0)
                                               \/ (entry_status = 0)]
    /\ UNCHANGED <<orchestrator, sanitizer, launcher, handler, agent,
                   reqs, tools>>

\* QubeConnection(qube, dest_dir, cleanup, logger) on a running or a
\* halted qube.
InitConnection ==
    /\ NoRun
    /\ NoHandler
    /\ NoUpgrade
    /\ NoRequirements
    /\ NoTools
    /\ NoSanitizerCall
    /\ NoMain
    /\ \E c \in BOOLEAN, r \in BOOLEAN :
         qc = [connected |-> FALSE, initially_running |-> "None",
               cleanup |-> c, is_running |-> r]
    /\ sent = <<>>
    /\ ret = NoCall

NextConnection ==
    \/ qc_enter
    \/ qc_exit
    \/ qc_transfer_agent
    \/ qc_run_entrypoint

SpecConnection == InitConnection /\ [][NextConnection]_vars

\* ------------------------------------ the callbacks of apply_async
\* What update_qube may return for qube t: not found, an exception, or
\* the exit code and return_data of run_agent.
TaskOutcomes(t) ==
    {NotFoundResult(t), ExceptionResult(t)} \cup
    {[name |-> t, exit_code |-> c,
      result |-> return_data(show_output, o, c)] :
        c \in ExitStatuses, o \in BOOLEAN}

\* run has given every task to the pool and waits in pool.join(); no
\* task has ended yet.
InitCollector ==
    /\ NoSanitizerCall
    /\ NoMain
    /\ NoConnection
    /\ variant = "vmupdate"
    /\ max_concurrency = MaxConcurrency
    /\ show_output \in BOOLEAN
    /\ cleanup = FALSE
    /\ domains = {}
    /\ vm = [t \in Targets |->
               [running |-> FALSE, starter |-> "none", stopping |-> FALSE]]
    /\ runpc = "joining"
    /\ queue = <<>>
    /\ outqueue = <<>>
    /\ exit_code = 0
    /\ returned = 0
    /\ reported = [t \in Targets |-> <<>>]
    /\ task = [t \in Targets |-> NewTask]
    /\ hist = [t \in Targets |-> NewHist]
    /\ handler = [IdleHandler EXCEPT !.left = Targets]
    /\ NoUpgrade
    /\ NoRequirements
    /\ NoTools

\* A worker ends the task of qube t, at any moment and in any order, and
\* puts the result on the pool's result queue.
result_put(t) ==
    /\ t \in handler.left
    /\ \E r \in TaskOutcomes(t) : outqueue' = Append(outqueue, r)
    /\ handler' = [handler EXCEPT !.left = @ \ {t}]
    /\ UNCHANGED <<config, sanitizer, launcher, connection, agent, reqs, tools,
                   runpc, queue, exit_code, returned, reported, task,
                   vm, hist>>

\* A result handler that runs no callback takes the next result and calls
\* collect_result(result_tuple).
result_get(h) ==
    /\ handler.pc[h] = "idle"
    /\ outqueue # <<>>
    /\ outqueue' = Tail(outqueue)
    /\ handler' = [handler EXCEPT !.pc[h] = "read",
                                  !.cur[h] = Head(outqueue)]
    /\ UNCHANGED <<config, sanitizer, launcher, connection, agent, reqs, tools,
                   runpc, queue, exit_code, returned, reported, task,
                   vm, hist>>

\* self.exit_code = max(self.exit_code, exit_code): self.exit_code is
\* read,
collect_result_read(h) ==
    /\ handler.pc[h] = "read"
    /\ handler' = [handler EXCEPT !.pc[h] = "max", !.seen[h] = exit_code]
    /\ UNCHANGED <<orchestrator, sanitizer, launcher, connection, agent,
                   reqs, tools>>

\* and the larger of the value read and the task's exit code is stored.
collect_result_max(h) ==
    /\ handler.pc[h] = "max"
    /\ exit_code' = collect_exit_code(handler.seen[h],
                                      handler.cur[h].exit_code)
    /\ handler' = [handler EXCEPT !.pc[h] =
          IF show_output /\ handler.cur[h].result = "output"
          THEN "header" ELSE "text"]
    /\ UNCHANGED <<config, sanitizer, launcher, connection, agent, reqs, tools,
                   runpc, queue, outqueue, returned, reported, task,
                   vm, hist>>

\* The next write to sys.stdout: for a list of lines the qube's name, the
\* lines and a newline (three sys.stdout.write calls), otherwise print's
\* text and its newline. After the last one collect_result returns.
collect_result_write(h) ==
    /\ handler.pc[h] \in {"header", "lines", "text", "end"}
    /\ LET part == handler.pc[h]
           after == IF part = "header" THEN "lines"
                    ELSE IF part = "end" THEN "idle" ELSE "end"
       IN handler' = [handler EXCEPT
              !.pc[h] = after,
              !.stdout = Append(@, [name |-> handler.cur[h].name,
                                    part |-> part]),
              !.ended = IF after = "idle"
                        THEN @ \cup {handler.cur[h]} ELSE @,
              !.cur[h] = IF after = "idle" THEN NoResult ELSE @]
    /\ UNCHANGED <<orchestrator, sanitizer, launcher, connection, agent,
                   reqs, tools>>

NextCollector ==
    \/ \E t \in Targets : result_put(t)
    \/ \E h \in ResultHandlers :
         \/ result_get(h)
         \/ collect_result_read(h)
         \/ collect_result_max(h)
         \/ collect_result_write(h)

SpecCollector == InitCollector /\ [][NextCollector]_vars

\* ------------------------------------------ PackageManager.upgrade
\* upgrade is called on either copy of the agent with any arguments.
InitAgent ==
    /\ NoRun
    /\ NoSanitizerCall
    /\ NoMain
    /\ NoConnection
    /\ NoHandler
    /\ NoRequirements
    /\ NoTools
    /\ \E copy \in Variants, refresh \in BOOLEAN, hard_fail \in BOOLEAN,
          requirements \in BOOLEAN :
         agent = NewUpgrade(copy, refresh, hard_fail, requirements)

\* if ret_code != 0: if hard_fail: return ... - vmupdate has this after
\* refresh and install_requirements only, qubesupdate after upgrade_internal
\* too.
upgrade_stops(copy, step, hard_fail, ret_code) ==
    /\ ret_code # 0
    /\ hard_fail
    /\ (copy = "qubesupdate" \/ step # "upgrade")

\* What upgrade returns when it stops: vmupdate return ret_code;
\* qubesupdate return 1, return 2, return 3.
hard_fail_code(copy, step, ret_code) ==
    IF copy = "vmupdate" THEN ret_code
    ELSE IF step = "refresh" THEN 1
    ELSE IF step = "requirements" THEN 2
    ELSE 3

\* exit_code = max(exit_code, ret_code)
upgrade_exit_code(old, ret_code) == Max(old, ret_code)

\* A step of upgrade has returned ret_code after the commands cmds: upgrade
\* stops and returns, or folds ret_code into exit_code and goes on; after
\* the last step it returns exit_code.
StepDone(step, cmds, ret_code, after) ==
    LET ran == agent.ran \o cmds
        code == upgrade_exit_code(agent.exit_code, ret_code)
    IN IF upgrade_stops(agent.copy, step, agent.hard_fail, ret_code)
       THEN agent' = [agent EXCEPT
                !.ran = ran, !.pc = "returned",
                !.returned = hard_fail_code(agent.copy, step, ret_code)]
       ELSE agent' = [agent EXCEPT
                !.ran = ran, !.exit_code = code, !.pc = after,
                !.returned = IF after = "returned" THEN code ELSE @]

\* if refresh: ret_code, stdout, stderr = self.refresh() ...
upgrade_refresh ==
    /\ agent.pc = "refresh"
    /\ IF agent.refresh
       THEN \E ret_code \in ExitStatuses :
              StepDone("refresh",
                       <<[step |-> "refresh", status |-> ret_code]>>,
                       ret_code, "requirements")
       ELSE agent' = [agent EXCEPT !.pc = "requirements"]
    /\ UNCHANGED <<orchestrator, sanitizer, launcher, connection, handler,
                   reqs, tools>>

\* install_requirements: exit_code = 0, then for the install command
\* (if to_install) and the upgrade command (if to_upgrade)
\* exit_code = max(exit_code, ret_code).
install_requirements_exit_code(cmds) ==
    LET code1 == IF Len(cmds) >= 1 THEN Max(0, cmds[1].status) ELSE 0
    IN IF Len(cmds) >= 2 THEN Max(code1, cmds[2].status) ELSE code1

\* The commands install_requirements runs when to_install and to_upgrade
\* are not empty, with the return codes s1 and s2 of run_cmd.
InstallCommands(to_install, to_upgrade, s1, s2) ==
    (IF to_install
     THEN <<[step |-> "install requirements", status |-> s1]>>
     ELSE <<>>) \o
    (IF to_upgrade
     THEN <<[step |-> "upgrade requirements", status |-> s2]>>
     ELSE <<>>)

\* curr_pkg = self.get_packages(); if requirements: ret_code, stdout,
\* stderr = self.install_requirements(requirements, curr_pkg) ...
upgrade_requirements ==
    /\ agent.pc = "requirements"
    /\ IF agent.requirements
       THEN \E to_install \in BOOLEAN, to_upgrade \in BOOLEAN,
               s1 \in ExitStatuses, s2 \in ExitStatuses :
              LET cmds == InstallCommands(to_install, to_upgrade, s1, s2)
              IN StepDone("requirements", cmds,
                          install_requirements_exit_code(cmds), "upgrade")
       ELSE agent' = [agent EXCEPT !.pc = "upgrade"]
    /\ UNCHANGED <<orchestrator, sanitizer, launcher, connection, handler,
                   reqs, tools>>

\* ret_code, stdout, stderr = self.upgrade_internal(remove_obsolete) ...
\* return exit_code
upgrade_upgrade_internal ==
    /\ agent.pc = "upgrade"
    /\ \E ret_code \in ExitStatuses :
         StepDone("upgrade", <<[step |-> "upgrade", status |-> ret_code]>>,
                  ret_code, "returned")
    /\ UNCHANGED <<orchestrator, sanitizer, launcher, connection, handler,
                   reqs, tools>>

NextAgent ==
    \/ upgrade_refresh
    \/ upgrade_requirements
    \/ upgrade_upgrade_internal

SpecAgent == InitAgent /\ [][NextAgent]_vars

\* ------------------------------- PackageManager.install_requirements
\* Package names, as many as MaxPackages.
Packages == 1..MaxPackages

\* Version strings, as sequences of digits: "9" and "10".
Versions == {<<9>>, <<1, 0>>}

\* Python's < on str: the first differing character decides, and a proper
\* prefix is smaller.
RECURSIVE str_less(_, _)
str_less(a, b) ==
    IF b = <<>> THEN FALSE
    ELSE IF a = <<>> THEN TRUE
    ELSE IF Head(a) # Head(b) THEN Head(a) < Head(b)
    ELSE str_less(Tail(a), Tail(b))

\* install_requirements is called with requirements (a version for some
\* packages, <<>> for a package without requirement) and curr_pkg (the
\* installed versions of every package, none if it is not installed).
InitRequirements ==
    /\ NoRun
    /\ NoSanitizerCall
    /\ NoMain
    /\ NoConnection
    /\ NoHandler
    /\ NoUpgrade
    /\ NoTools
    /\ \E r \in [Packages -> Versions \cup {<<>>}],
          c \in [Packages -> SUBSET Versions] :
         reqs = [requirements |-> r, curr_pkg |-> c, pc |-> "called",
                 to_install |-> {}, to_upgrade |-> {}, cmds |-> <<>>,
                 exit_code |-> 0]

\* if pkg not in curr_pkg: to_install.append(pkg)
to_install(requirements, curr_pkg) ==
    {pkg \in Packages : requirements[pkg] # <<>> /\ curr_pkg[pkg] = {}}

\* else: for v in curr_pkg[pkg]: if version < v: break
\*       else: to_upgrade[pkg] = version
to_upgrade(requirements, curr_pkg) ==
    {pkg \in Packages :
        /\ requirements[pkg] # <<>>
        /\ curr_pkg[pkg] # {}
        /\ ~\E v \in curr_pkg[pkg] : str_less(requirements[pkg], v)}

\* install_requirements: the packages to install and to upgrade are
\* chosen, the install command and the upgrade command are run if their
\* list is not empty, and the maximum of 0 and their return codes is
\* returned.
install_requirements ==
    /\ reqs.pc = "called"
    /\ \E s1 \in ExitStatuses, s2 \in ExitStatuses :
         LET inst == to_install(reqs.requirements, reqs.curr_pkg)
             upgr == to_upgrade(reqs.requirements, reqs.curr_pkg)
             cmds == InstallCommands(inst # {}, upgr # {}, s1, s2)
         IN reqs' = [reqs EXCEPT
                !.pc = "returned", !.to_install = inst,
                !.to_upgrade = upgr, !.cmds = cmds,
                !.exit_code = install_requirements_exit_code(cmds)]
    /\ UNCHANGED <<orchestrator, sanitizer, launcher, connection, handler,
                   agent, tools>>

NextRequirements == install_requirements

SpecRequirements == InitRequirements /\ [][NextRequirements]_vars

\* ----------------------------------- PackageManager.compare_packages
\* A dictionary of packages: the versions of every package, none for a
\* package that is not a key.
PackageStates == [Packages -> SUBSET Versions]

\* The keys of a dictionary of packages.
Keys(d) == {pkg \in Packages : d[pkg] # {}}

\* Mutant of compare_packages: a package of both states counts as updated
\* whatever its versions.
compare_packages_all_updated(old, new) ==
    [installed |-> [pkg \in Keys(new) \ Keys(old) |-> new[pkg]],
     updated |-> [pkg \in Keys(new) \cap Keys(old) |->
                     [old |-> old[pkg], new |-> new[pkg]]],
     removed |-> [pkg \in Keys(old) \ Keys(new) |-> old[pkg]]]

\* {"installed": {pkg: new[pkg] for pkg in new if pkg not in old},
\*  "updated": {pkg: {"old": old[pkg], "new": new[pkg]} for pkg in new
\*              if pkg in old and old[pkg] != new[pkg]},
\*  "removed": {pkg: old[pkg] for pkg in old if pkg not in new}}
compare_packages(old, new) ==
    [installed |-> [pkg \in {k \in Keys(new) : k \notin Keys(old)} |->
                       new[pkg]],
     updated |-> [pkg \in {k \in Keys(new) :
                             k \in Keys(old) /\ old[k] # new[k]} |->
                     [old |-> old[pkg], new |-> new[pkg]]],
     removed |-> [pkg \in {k \in Keys(old) : k \notin Keys(new)} |->
                     old[pkg]]]

\* compare_packages is called with any two package states.
InitCompare ==
    /\ NoRun
    /\ NoSanitizerCall
    /\ NoMain
    /\ NoConnection
    /\ NoHandler
    /\ NoUpgrade
    /\ NoRequirements
    /\ NoDnfUpgrade
    /\ NoDnfRefresh
    /\ NoProgress
    /\ \E old \in PackageStates, new \in PackageStates :
         packages = [old |-> old, new |-> new, pc |-> "called",
                     installed |-> <<>>, updated |-> <<>>,
                     removed |-> <<>>]

\* changes = PackageManager.compare_packages(old=curr_pkg, new=new_pkg)
compare_packages_call ==
    /\ packages.pc = "called"
    /\ LET changes == compare_packages(packages.old, packages.new)
       IN packages' = [packages EXCEPT
              !.pc = "returned",
              !.installed = changes.installed,
              !.updated = changes.updated,
              !.removed = changes.removed]
    /\ UNCHANGED <<orchestrator, sanitizer, launcher, connection, handler,
                   agent, reqs, dnf, dnfrefresh, progress>>

NextCompare == compare_packages_call

SpecCompare == InitCompare /\ [][NextCompare]_vars

\* --------------------------------------------- DNF.upgrade_internal
\* What base.package_signature_check reports: 0 for a good signature, 1
\* and 2 for a failed check.
SignatureCodes == {0, 1, 2}

\* The signature check results of the packages of trans.install_set.
CheckLists == UNION {[1..n -> SignatureCodes] : n \in 0..MaxPackages}

\* sign_check: exit_code = 0; for package in packages: if ret_code != 0:
\* exit_code = max(exit_code, ret_code); return exit_code
RECURSIVE sign_check(_)
sign_check(codes) ==
    IF codes = <<>> THEN 0
    ELSE LET before == sign_check(SubSeq(codes, 1, Len(codes) - 1))
             last == codes[Len(codes)]
         IN IF last # 0 THEN Max(before, last) ELSE before

\* Mutant of transaction_allowed: the transaction is done whatever the
\* signature checks said.
transaction_allowed_always(code) == TRUE

\* if exit_code == 0: base.do_transaction(self.progress)
transaction_allowed(code) == code = 0

\* upgrade_internal is called: exit_code starts at 0 (vmupdate) or at what
\* base._upgrade_internal returns (qubesupdate); the transaction dnf
\* resolves is empty or has an install set with these signature check
\* results; a call into dnf may raise.
InitDnfUpgrade ==
    /\ NoRun
    /\ NoSanitizerCall
    /\ NoMain
    /\ NoConnection
    /\ NoHandler
    /\ NoUpgrade
    /\ NoRequirements
    /\ NoCompare
    /\ NoDnfRefresh
    /\ NoProgress
    /\ \E copy \in Variants, initial \in {0, 1}, trans \in BOOLEAN,
          install_set \in CheckLists,
          raises \in {"none", "resolve", "download", "transaction"} :
         /\ copy = "vmupdate" => initial = 0
         /\ ~trans => install_set = <<>>
         /\ dnf = [copy |-> copy, initial |-> initial, trans |-> trans,
                   install_set |-> install_set, raises |-> raises,
                   pc |-> "called", checked |-> <<>>,
                   transaction |-> FALSE, returned |-> 0]

\* DNF.upgrade_internal, from the try to the return: an exception gives
\* code 1; an empty transaction returns exit_code; else the packages are
\* downloaded, sign_check is folded into exit_code, the transaction is
\* done if exit_code is 0, and exit_code is returned.
upgrade_internal ==
    /\ dnf.pc = "called"
    /\ LET code == Max(dnf.initial, sign_check(dnf.install_set))
           allowed == transaction_allowed(code)
       IN dnf' =
          IF dnf.raises = "resolve"
          THEN [dnf EXCEPT !.pc = "returned", !.returned = 1]
          ELSE IF ~dnf.trans
          THEN [dnf EXCEPT !.pc = "returned", !.returned = dnf.initial]
          ELSE IF dnf.raises = "download"
          THEN [dnf EXCEPT !.pc = "returned", !.returned = 1]
          ELSE [dnf EXCEPT
                  !.pc = "returned",
                  !.checked = dnf.install_set,
                  !.transaction = allowed,
                  !.returned = IF allowed /\ dnf.raises = "transaction"
                               THEN 1 ELSE code]
    /\ UNCHANGED <<orchestrator, sanitizer, launcher, connection, handler,
                   agent, reqs, packages, dnfrefresh, progress>>

NextDnfUpgrade == upgrade_internal

SpecDnfUpgrade == InitDnfUpgrade /\ [][NextDnfUpgrade]_vars

\* ------------------------------------------------------ DNF.refresh
\* The return code dnf check-update ends with when updates are available.
UpdatesAvailable == 100

\* Return codes of the two dnf commands of refresh.
RefreshStatuses == ExitStatuses \cup {1, UpdatesAvailable}

\* The two copies of DNF.refresh in qubesupdate: agent and qube_agent.
RefreshCopies == {"agent", "qube_agent"}

\* refresh is called; the two commands will end with these codes.
InitDnfRefresh ==
    /\ NoRun
    /\ NoSanitizerCall
    /\ NoMain
    /\ NoConnection
    /\ NoHandler
    /\ NoUpgrade
    /\ NoRequirements
    /\ NoCompare
    /\ NoDnfUpgrade
    /\ NoProgress
    /\ \E copy \in RefreshCopies, clean \in RefreshStatuses,
          check \in RefreshStatuses :
         dnfrefresh = [copy |-> copy, clean |-> clean, check |-> check,
                       pc |-> "clean", return_code |-> 0]

\* dnf -q clean expire-cache: exit_code = ret_code
refresh_clean ==
    /\ dnfrefresh.pc = "clean"
    /\ dnfrefresh' = [dnfrefresh EXCEPT
          !.pc = "check-update", !.return_code = dnfrefresh.clean]
    /\ UNCHANGED <<orchestrator, sanitizer, launcher, connection, handler,
                   agent, reqs, packages, dnf, progress>>

\* agent: ret_code = ret_code if ret_code != 100 else 0; qube_agent has no
\* such line.
check_update_code(copy, status) ==
    IF copy = "agent" /\ status = UpdatesAvailable THEN 0 ELSE status

\* dnf -q check-update: exit_code = max(ret_code, exit_code); return
refresh_check_update ==
    /\ dnfrefresh.pc = "check-update"
    /\ dnfrefresh' = [dnfrefresh EXCEPT
          !.pc = "returned",
          !.return_code = Max(check_update_code(dnfrefresh.copy,
                                                dnfrefresh.check),
                              dnfrefresh.return_code)]
    /\ UNCHANGED <<orchestrator, sanitizer, launcher, connection, handler,
                   agent, reqs, packages, dnf, progress>>

NextDnfRefresh == refresh_clean \/ refresh_check_update

SpecDnfRefresh == InitDnfRefresh /\ [][NextDnfRefresh]_vars

\* ------------------------------------------------ APTProgressReporter
\* Progress values are floats; the model keeps them in thousandths.
Milli(n) == n * 1000

\* round(): to the nearest integer, a half to the even one.
round(x) ==
    LET q == x \div 1000
        r == x % 1000
    IN IF r < 500 THEN q
       ELSE IF r > 500 THEN q + 1
       ELSE IF q % 2 = 0 THEN q ELSE q + 1

\* What pulse hands on: current_bytes / total_bytes, in thousandths.
Fractions == {0, 500, 1000}

\* What status_change hands on: the percentage apt gives, in thousandths.
Percents == {Milli(0), Milli(1), Milli(50), Milli(100)}

\* The sub-range of each phase: update_progress, fetch_progress and
\* upgrade_progress call update with these start and stop.
PhaseRange(phase) ==
    CASE phase = "refresh" -> [start |-> 0, stop |-> 10]
      [] phase = "fetch" -> [start |-> 10, stop |-> 55]
      [] phase = "install" -> [start |-> 55, stop |-> 100]

\* _percent of update: start + percent * (stop - start) / 100 in vmupdate,
\* start + percent * (stop - start) in qubesupdate.
scaled(copy, percent, start, stop) ==
    IF copy = "vmupdate"
    THEN Milli(start) + (percent * (stop - start)) \div 100
    ELSE Milli(start) + percent * (stop - start)

\* APTProgressReporter.update: the value is handed to the callback, and
\* last_percent set to its rounding, if it is at least last_percent + 1.
update(percent, phase) ==
    LET range == PhaseRange(phase)
        value == scaled(progress.copy, percent, range.start, range.stop)
    IN progress' =
        IF Milli(progress.last_percent + 1) <= value
        THEN [progress EXCEPT
                !.calls = @ + 1,
                !.reported = Append(@, [phase |-> phase, value |-> value]),
                !.last_percent = round(value)]
        ELSE [progress EXCEPT !.calls = @ + 1]

\* APTProgressReporter(): last_percent = 0.0; APT.refresh is first to use
\* it, with update_progress.
InitProgress ==
    /\ NoRun
    /\ NoSanitizerCall
    /\ NoMain
    /\ NoConnection
    /\ NoHandler
    /\ NoUpgrade
    /\ NoRequirements
    /\ NoCompare
    /\ NoDnfUpgrade
    /\ NoDnfRefresh
    /\ \E copy \in Variants :
         progress = [copy |-> copy, phase |-> "refresh", last_percent |-> 0,
                     calls |-> 0, reported |-> <<>>]

\* FetchProgress.pulse of update_progress or fetch_progress, during
\* apt_cache.update and during the fetching of commit.
pulse ==
    /\ progress.phase \in {"refresh", "fetch"}
    /\ progress.calls < MaxCalls
    /\ \E fraction \in Fractions : update(fraction, progress.phase)
    /\ UNCHANGED <<orchestrator, sanitizer, launcher, connection, handler,
                   agent, reqs, packages, dnf, dnfrefresh>>

\* UpgradeProgress.status_change of upgrade_progress, during the
\* installation of commit.
status_change ==
    /\ progress.phase = "install"
    /\ progress.calls < MaxCalls
    /\ \E percent \in Percents : update(percent, "install")
    /\ UNCHANGED <<orchestrator, sanitizer, launcher, connection, handler,
                   agent, reqs, packages, dnf, dnfrefresh>>

\* apt_cache.update returns and upgrade_internal goes on to commit, which
\* fetches and then installs.
next_phase ==
    /\ progress.phase \in {"refresh", "fetch"}
    /\ progress' = [progress EXCEPT
          !.phase = IF @ = "refresh" THEN "fetch" ELSE "install"]
    /\ UNCHANGED <<orchestrator, sanitizer, launcher, connection, handler,
                   agent, reqs, packages, dnf, dnfrefresh>>

NextProgress == pulse \/ status_change \/ next_phase

SpecProgress == InitProgress /\ [][NextProgress]_vars

\* ------------------------------------------------------ specification
Next ==
    \/ Run
    \/ RunReturn
    \/ collect_result
    \/ \E t \in Targets :
         \/ update_qube_start(t)
         \/ transfer_agent(t)
         \/ run_agent_entrypoint(t)
         \/ run_entrypoint_script(t)
         \/ QubeConnection_exit(t)
         \/ QubeConnection_exit_wait(t)
         \/ OtherActorStarts(t)
         \/ QubeHalts(t)

Spec == Init /\ [][Next]_vars

\* A worker process runs its task step after step, every call into the
\* qube returns, and a qube asked to shut down halts.
SessionsProgress ==
    \A t \in Targets :
        /\ WF_vars(transfer_agent(t))
        /\ WF_vars(run_agent_entrypoint(t))
        /\ WF_vars(run_entrypoint_script(t))
        /\ WF_vars(QubeConnection_exit(t))
        /\ WF_vars(QubeConnection_exit_wait(t))
        /\ WF_vars(QubeHalts(t))

SpecLive == Init /\ [][Next]_vars /\ SessionsProgress

\* ------------------------------------------------------------ properties
\* The results update_qube returned for t: waiting for the callback, or
\* already given to collect_result.
TaskResults(t) ==
    {outqueue[i] : i \in {j \in 1..Len(outqueue) : outqueue[j].name = t}}
    \cup {reported[t][i] : i \in 1..Len(reported[t])}

Raised(t) == hist[t].envRaised \/ hist[t].codeRaised
Entered(t) == hist[t].was_running # "None"

\* C1: after UpdateManager.run returns, its exit code equals the maximum
\* of the exit codes of all per-target results.
C1_ExitCodeIsMaximum ==
    runpc = "returned" =>
        LET codes == {r.exit_code : r \in UNION {TaskResults(t) : t \in Targets}}
        IN /\ returned \in codes
           /\ \A c \in codes : returned >= c

\* C2: when the session of one target raised an error, run still returns
\* only with every other target finished and its own result collected:
\* not found, its own exception, or the exit code of its own entrypoint.
C2_OthersStillCollected ==
    runpc = "returned" =>
        \A t \in Targets : Raised(t) =>
            \A u \in Targets \ {t} :
                /\ task[u].pc = "done"
                /\ Len(reported[u]) = 1
                /\ reported[u][1].name = u
                /\ reported[u][1].exit_code =
                      IF u \notin domains THEN 2
                      ELSE IF Raised(u) THEN 1
                      ELSE hist[u].entryStatus
                /\ (u \in domains /\ ~Raised(u)) => hist[u].entryRan

\* C2 witness: one target's session raised, another one's ran its
\* entrypoint to exit code 0 and was collected, and run has returned.
C2_Witness ==
    /\ runpc = "returned"
    /\ \E t \in Targets, u \in Targets :
         /\ t # u
         /\ hist[t].envRaised
         /\ ~Raised(u)
         /\ hist[u].entryRan
         /\ Len(reported[u]) = 1
         /\ reported[u][1].exit_code = 0

\* C3: a qube that was running when the session was entered is never
\* shut down by the session.
C3_RunningQubeNotShutDown ==
    \A t \in Targets :
        hist[t].was_running = "running" => hist[t].nShutdown = 0

\* C3 witness: a session on a qube that was running has been torn down
\* after its body raised, and the qube is still running.
C3_Witness ==
    \E t \in Targets :
        /\ hist[t].was_running = "running"
        /\ task[t].pc = "done"
        /\ Raised(t)
        /\ hist[t].nCleanup = 1
        /\ vm[t].running

\* C4: a session shuts a qube down only if its own connection started it.
C4_ShutdownOnlyOwnStart ==
    \A t \in Targets :
        hist[t].nShutdown > 0 => hist[t].shutStarter = "conn"

\* C5: for every session that was entered the rm -r command is issued
\* exactly once when cleanup is enabled and never when it is disabled.
C5_CleanupExactlyOnce ==
    \A t \in Targets :
        /\ hist[t].nCleanup <= 1
        /\ ~cleanup => hist[t].nCleanup = 0
        /\ (task[t].pc = "done" /\ Entered(t) /\ cleanup)
              => hist[t].nCleanup = 1

\* C5 witness: a session whose body raised has ended with cleanup enabled
\* and one rm -r issued.
C5_Witness ==
    \E t \in Targets :
        /\ task[t].pc = "done"
        /\ Entered(t)
        /\ Raised(t)
        /\ cleanup
        /\ hist[t].nCleanup = 1

\* C6: when every target exists and every command sent for every target
\* ended with status 0 and nothing raised in the environment, run returns
\* 0 and every result is OK (or the captured output under show_output).
C6_AllSucceedGivesZero ==
    (/\ runpc = "returned"
     /\ domains = Targets
     /\ \A t \in Targets :
          /\ ~hist[t].transferFailed
          /\ ~hist[t].envRaised
          /\ hist[t].entryRan => hist[t].entryStatus = 0)
    => /\ returned = 0
       /\ \A t \in Targets :
            /\ Len(reported[t]) = 1
            /\ reported[t][1].exit_code = 0
            /\ reported[t][1].result \in
                  (IF show_output THEN {"OK", "output"} ELSE {"OK"})

\* C7: a nonzero status of any sign of a target's command makes the
\* target's result a failure and the aggregate exit code nonzero; the
\* aggregate is 0 only when every target succeeded.
C7_NonzeroStatusIsFailure ==
    runpc = "returned" =>
        /\ \A t \in Targets :
             (hist[t].entryRan /\ hist[t].entryStatus # 0 /\ ~Raised(t)) =>
                 /\ \A r \in TaskResults(t) : r.exit_code # 0
                 /\ returned # 0
        /\ returned = 0 =>
             \A t \in Targets : \A r \in TaskResults(t) : r.exit_code = 0

\* C8: an error raised while the session of a target is constructed or
\* run becomes that task's result, exit code 1 with the exception
\* message; no task raises into the pool.
C8_ErrorsBecomeResults ==
    \A t \in Targets :
        /\ task[t].pc # "crashed"
        /\ (Raised(t) /\ Finished(t)) =>
              TaskResults(t) = {ExceptionResult(t)}

\* C8 witness: a session that raised during teardown (after cleanup was
\* issued) has been collected as exit code 1.
C8_Witness ==
    \E t \in Targets :
        /\ hist[t].envRaised
        /\ hist[t].nCleanup = 1
        /\ reported[t] = <<ExceptionResult(t)>>

\* C9: a target that is not among the live qubes yields exit code 2 and
\* no session step: is_running is not queried, no command is sent, no
\* shutdown is invoked.
C9_NotFoundNoSession ==
    \A t \in Targets \ domains :
        /\ hist[t] = NewHist
        /\ ~vm[t].running
        /\ task[t].pc \in {"queued", "done"}
        /\ Finished(t) => TaskResults(t) = {NotFoundResult(t)}

\* C9 witness: the result of a target that does not exist was collected.
C9_Witness ==
    \E t \in Targets \ domains : reported[t] = <<NotFoundResult(t)>>

\* C10: a session one of whose transfer commands failed ends with a
\* nonzero exit code and a diagnostic.
C10_TransferFailureIsFailure ==
    \A t \in Targets :
        (hist[t].transferFailed /\ Finished(t)) =>
            \A r \in TaskResults(t) :
                /\ r.exit_code # 0
                /\ r.result \in {"ERROR (exception)", "ERROR (exit code)"}

\* The number of results update_qube has returned for t so far.
NumResults(t) ==
    Len(reported[t])
    + Cardinality({j \in 1..Len(outqueue) : outqueue[j].name = t})

\* C14: run returns only when every dispatched task has completed and its
\* result has been collected, also when a target failed.
C14_ReturnsAfterAllCollected ==
    runpc = "returned" =>
        /\ queue = <<>>
        /\ outqueue = <<>>
        /\ \A t \in Targets : Finished(t) /\ Len(reported[t]) >= 1

\* C14 witness: run has returned with a failed target collected and
\* another target's session run to its close.
C14_Witness ==
    /\ runpc = "returned"
    /\ \E t \in Targets, u \in Targets :
         /\ t # u
         /\ Len(reported[t]) = 1
         /\ reported[t][1].exit_code = 2
         /\ hist[u].closed
         /\ Len(reported[u]) = 1

\* C15: every dispatched target gets exactly one result, which is given to
\* collect_result exactly once before run returns: none is lost, none is
\* collected twice.
C15_ExactlyOneResult ==
    \A t \in Targets :
        /\ NumResults(t) <= 1
        /\ Finished(t) <=> NumResults(t) = 1
        /\ runpc = "returned" =>
              /\ Len(reported[t]) = 1
              /\ reported[t][1].name = t

\* C15 witness: run has returned after one target that does not exist and
\* one whose session was entered.
C15_Witness ==
    /\ runpc = "returned"
    /\ \E t \in Targets \ domains : Len(reported[t]) = 1
    /\ \E t \in domains : Entered(t) /\ Len(reported[t]) = 1

\* C16: at every moment at most max_concurrency sessions are executed.
C16_AtMostMaxConcurrency ==
    Cardinality({t \in Targets : Running(t)}) <= max_concurrency

\* C16 witness: the pool is full and a task waits for a worker.
C16_Witness ==
    /\ Cardinality({t \in Targets : Running(t)}) = max_concurrency
    /\ queue # <<>>

\* C18: a failing cleanup command changes neither the exit code nor the
\* result of the session, and the rest of the teardown runs: the
\* conditional shutdown and the closing of the connection.
C18_CleanupFailureSwallowed ==
    \A t \in Targets :
        (hist[t].cleanupFailed /\ Finished(t)
         /\ hist[t].exitRaised = "none") =>
            /\ hist[t].closed
            /\ hist[t].was_running = "halted" => ~vm[t].running
            /\ \A r \in TaskResults(t) :
                  IF Raised(t)
                  THEN r = ExceptionResult(t)
                  ELSE /\ hist[t].entryRan
                       /\ r.exit_code = hist[t].entryStatus
                       /\ r.result # "ERROR (exception)"

\* C18 witness: the cleanup command failed, the qube the session had
\* started was shut down and the connection closed.
C18_Witness ==
    \E t \in Targets :
        /\ hist[t].cleanupFailed
        /\ hist[t].closed
        /\ hist[t].nShutdown = 1
        /\ task[t].pc = "done"

\* C19: a session on a qube that was not running at its start and runs at
\* teardown shuts it down and closes only once it has halted: when such a
\* session is closed the qube is not running.
C19_ClosedMeansHalted ==
    \A t \in Targets :
        (hist[t].closed /\ hist[t].was_running = "halted") =>
            ~vm[t].running

\* C19 witness: a session has closed after shutting down the qube it had
\* started.
C19_Witness ==
    \E t \in Targets :
        /\ hist[t].closed
        /\ hist[t].was_running = "halted"
        /\ hist[t].nShutdown = 1
        /\ hist[t].shutStarter = "conn"
        /\ ~vm[t].running

\* C20: __exit__ runs exactly once for every session that was entered,
\* also when the transfer or the entrypoint step raised; it does not run
\* for a session that was not entered.
C20_TeardownExactlyOnce ==
    \A t \in Targets :
        /\ hist[t].nExit <= 1
        /\ ~Entered(t) => hist[t].nExit = 0
        /\ (Finished(t) /\ Entered(t)) => hist[t].nExit = 1

\* C20 witness: a session whose transfer step raised has been torn down
\* once and has ended.
C20_Witness ==
    \E t \in Targets :
        /\ task[t].pc = "done"
        /\ Entered(t)
        /\ hist[t].envRaised
        /\ hist[t].nCmd = hist[t].nCleanup
        /\ hist[t].exitRaised = "none"
        /\ hist[t].nExit = 1

\* The qube a session waits for was started again by another actor after
\* it had halted, before the session asked again: it does not report
\* stopped any more.
RestartedWhileAwaited(t) ==
    task[t].pc = "wait" /\ vm[t].running /\ ~vm[t].stopping

StepOrder == <<"was_running", "transfer", "chmod", "entrypoint",
               "cleanup", "shutdown">>

Rank(step) == CHOOSE i \in 1..Len(StepOrder) : StepOrder[i] = step

\* C27: the steps a session has taken are in the order was_running,
\* transfer, chmod, entrypoint, cleanup, shutdown: a later step of the
\* session never comes before or together with an earlier one, none
\* occurs twice, and nothing is done before was_running is recorded.
C27_StepsInOrder ==
    \A t \in Targets :
        LET steps == hist[t].steps
        IN /\ \A i, j \in 1..Len(steps) :
                 i < j => Rank(steps[i]) < Rank(steps[j])
           /\ steps # <<>> => steps[1] = "was_running"
           /\ hist[t].nCmd > 0 => steps # <<>>

\* A session has taken all six steps.
C27_Witness ==
    \E t \in Targets : hist[t].steps = StepOrder

\* C24 as stated: the result of a target whose session returned is the
\* captured output when show_output is set, and otherwise OK for exit
\* code 0 and ERROR (exit code N, details in <log>) for any other.
C24_OutputWheneverShown ==
    \A t \in domains : \A r \in TaskResults(t) :
        ~Raised(t) =>
            r.result = IF show_output THEN "output"
                       ELSE IF r.exit_code = 0 THEN "OK"
                       ELSE "ERROR (exit code)"

\* C24 amended: the result of a target whose session returned is the
\* captured output when show_output is set and the output is not empty,
\* and otherwise OK for exit code 0 and ERROR (exit code N, details in
\* <log>) for any other; a target that was not found has ERROR (qube not
\* found) and one whose session raised has ERROR (exception <message>).
C24_OutputWhenShownAndNotEmpty ==
    \A t \in Targets : \A r \in TaskResults(t) :
        r.result =
            IF t \notin domains THEN "ERROR (qube not found)"
            ELSE IF Raised(t) THEN "ERROR (exception)"
            ELSE IF show_output /\ hist[t].hasOutput THEN "output"
            ELSE IF r.exit_code = 0 THEN "OK"
            ELSE "ERROR (exit code)"

\* C24 witness: show_output is set, the entrypoint wrote nothing and ended
\* with 5, and the collected result is the ERROR status.
C24_Witness ==
    \E t \in domains :
        /\ show_output
        /\ hist[t].entryRan
        /\ ~hist[t].hasOutput
        /\ ~Raised(t)
        /\ reported[t] = <<[name |-> t, exit_code |-> 5,
                            result |-> "ERROR (exit code)"]>>

\* ------------------------------------------- properties of the sanitizer
\* The lenient decode of what _collect_output was given.
LenientDecode ==
    SelectSeq(untrusted_stdout, IsAscii) \o SelectSeq(untrusted_stderr, IsAscii)

RECURSIVE Flatten(_)
Flatten(lines) ==
    IF lines = <<>> THEN <<>> ELSE Head(lines) \o Flatten(Tail(lines))

IsLineSeparator(c) == c \in {10, 11, 12, 13, 28, 29, 30}
NotLineSeparator(c) == ~IsLineSeparator(c)

\* C11: with force_color false every line the sanitizer returns holds
\* only characters in 0x20..0x7e, whatever stdout and stderr were; the
\* escape character 0x1b is not among them.
C11_OnlyPrintableAscii ==
    (sanpc = "returned" /\ ~force_color) =>
        \A i \in 1..Len(stdout_lines) :
            \A j \in 1..Len(stdout_lines[i]) :
                /\ stdout_lines[i][j] \in 32..126
                /\ stdout_lines[i][j] # 27

\* C11 witness: stdout held an escape character and stderr a DEL, and the
\* sanitizer returned a line that is not empty.
C11_Witness ==
    /\ sanpc = "returned"
    /\ ~force_color
    /\ \E i \in 1..Len(untrusted_stdout) : untrusted_stdout[i] = 27
    /\ \E i \in 1..Len(untrusted_stderr) : untrusted_stderr[i] = 127
    /\ \E i \in 1..Len(stdout_lines) : stdout_lines[i] # <<>>

\* C12 as stated: with force_color true the result is the lenient decode
\* of the input, no character of it removed or altered, line separators
\* included.
C12_IdenticalToDecode ==
    (sanpc = "returned" /\ force_color) =>
        Flatten(stdout_lines) = LenientDecode

\* C12 amended: with force_color true the result is the lenient decode cut
\* at its line separators: the lines in order hold every character of the
\* decoded text except the line separators, unaltered, control characters
\* included, and no line holds a line separator.
C12_DecodeCutIntoLines ==
    (sanpc = "returned" /\ force_color) =>
        /\ Flatten(stdout_lines) = SelectSeq(LenientDecode, NotLineSeparator)
        /\ \A i \in 1..Len(stdout_lines) :
              \A j \in 1..Len(stdout_lines[i]) :
                  ~IsLineSeparator(stdout_lines[i][j])
        /\ Len(stdout_lines) <= Len(LenientDecode)

\* C12 witness: the input held an escape character and a line feed, and a
\* returned line holds the escape character.
C12_Witness ==
    /\ sanpc = "returned"
    /\ force_color
    /\ \E i \in 1..Len(LenientDecode) : LenientDecode[i] = 10
    /\ \E i \in 1..Len(stdout_lines) :
          \E j \in 1..Len(stdout_lines[i]) : stdout_lines[i][j] = 27

\* C13: the sanitizer returns a sequence of lines and never raises, for
\* every stdout and stderr (empty, with bytes above 0x7f, with NUL), and
\* it changes nothing but its own result.
C13_TotalAndPure ==
    /\ [](/\ sanpc # "raised"
          /\ sanpc = "called" => ENABLED collect_output
          /\ sanpc = "returned" => stdout_lines \in Seq(Seq(0..127)))
    /\ [][UNCHANGED <<orchestrator, launcher, connection, handler, agent, reqs, tools,
                      untrusted_stdout, untrusted_stderr,
                      force_color>>]_vars

\* C13 witness: the sanitizer has returned for an input with a NUL and a
\* byte above 0x7f.
C13_Witness ==
    /\ sanpc = "returned"
    /\ \E i \in 1..Len(untrusted_stdout) : untrusted_stdout[i] = 0
    /\ \E i \in 1..Len(untrusted_stderr) : untrusted_stderr[i] = 200

\* ------------------------------------------------------ properties of main
Selected == {targets[i].name : i \in 1..Len(targets)}

\* C17: in one call of main every selected target gets exactly one
\* session, no other qube gets one, and no two sessions are ever under way
\* on the same qube.
C17_OneSessionPerTarget ==
    \A n \in DomainNames :
        /\ open[n] <= 1
        /\ started[n] <= 1
        /\ mainpc = "returned" =>
              started[n] = (IF n \in Selected THEN 1 ELSE 0)

\* C17 witness: main has returned after one session on a template and one
\* on each of two other qubes, gathered by --all or by the klass flags.
C17_Witness ==
    /\ mainpc = "returned"
    /\ started["tpl"] = 1
    /\ started["work"] = 1
    /\ started["sa"] = 1

\* The qubes of app.domains that are templates.
TemplateNames ==
    {Domains[i].name : i \in {j \in 1..Len(Domains) :
                                 Domains[j].klass = "TemplateVM"}}

\* The largest of 0 and the exit codes collected for the qubes of S.
RECURSIVE MaxEnded(_)
MaxEnded(S) ==
    IF S = {} THEN 0
    ELSE LET n == CHOOSE x \in S : TRUE
             rest == MaxEnded(S \ {n})
         IN IF ended[n] = <<>> THEN rest ELSE Max(ended[n][1], rest)

\* C32: when the session of a qube that is not a template has started,
\* every template among the targets has had its session, completed and
\* collected; and main returns the maximum of the exit codes of the two
\* runs, each the maximum of 0 and the exit codes of its sessions.
C32_TemplatesBeforeRest ==
    /\ \A n \in DomainNames \ TemplateNames :
         started[n] > 0 =>
             \A t \in Selected \cap TemplateNames :
                 started[t] = 1 /\ open[t] = 0 /\ Len(ended[t]) = 1
    /\ mainpc = "returned" =>
         /\ phases.exit_code_templates = MaxEnded(TemplateNames)
         /\ phases.exit_code_rest = MaxEnded(DomainNames \ TemplateNames)
         /\ phases.returned = Max(phases.exit_code_templates,
                                  phases.exit_code_rest)

\* C32 witness: main has returned after a template and another qube were
\* updated, and the template's exit code was the larger one.
C32_Witness ==
    /\ mainpc = "returned"
    /\ \E t \in TemplateNames, n \in DomainNames \ TemplateNames :
         /\ ended[t] # <<>> /\ ended[n] # <<>>
         /\ ended[t][1] > ended[n][1]
    /\ phases.returned = phases.exit_code_templates
    /\ phases.returned > phases.exit_code_rest

\* The qubes of app.domains that are disposable.
DispNames ==
    {Domains[i].name : i \in {j \in 1..Len(Domains) :
                                 Domains[j].klass = "DispVM"}}

\* C34: dom0 is never among the targets and no session is started for it,
\* whatever the command line; with --all no DispVM is among the targets
\* and no session is started for one.
C34_NeverDom0NorDispWithAll ==
    /\ "dom0" \notin Selected
    /\ started["dom0"] = 0
    /\ "--all" \in argv =>
          \A n \in DispNames : n \notin Selected /\ started[n] = 0

\* C34 witness: main has returned from a call with --all: every qube but
\* dom0 and the DispVM had its session.
C34_Witness ==
    /\ mainpc = "returned"
    /\ "--all" \in argv
    /\ \A n \in DomainNames :
          started[n] = IF n = "dom0" \/ n \in DispNames THEN 0 ELSE 1

\* C40: a name of --targets that no qube has is not among the targets, no
\* task is given to the pool for it, no session starts and no result is
\* collected for it; what main returns is the largest of 0 and the exit
\* codes of the sessions of the qubes that exist.
C40_UnknownNameDropped ==
    \A n \in Range(args.targets) \ DomainNames :
        /\ n \notin Selected
        /\ n \notin Range(pending)
        /\ started[n] = 0
        /\ open[n] = 0
        /\ ended[n] = <<>>
        /\ mainpc = "returned" => phases.returned = MaxEnded(DomainNames)

\* C40 witness: main has returned from a call with --targets naming a
\* qube that exists and one that does not; the session of the first ended
\* with a nonzero code.
C40_Witness ==
    /\ mainpc = "returned"
    /\ "ghost" \in Range(args.targets)
    /\ \E n \in Range(args.targets) \cap DomainNames :
          ended[n] # <<>> /\ ended[n][1] # 0

\* --------------------------------------- properties of the QubeConnection
\* C22: the exit code run_entrypoint returns is the maximum of the exit
\* codes of chmod and of the entrypoint, and both were run, chmod first,
\* whatever chmod ended with.
C22_ExitCodeIsMaxOfBoth ==
    (ret.call = "run_entrypoint" /\ ret.raised = "none") =>
        /\ ret.exit_code >= ret.chmod_status
        /\ ret.exit_code >= ret.entry_status
        /\ ret.exit_code \in {ret.chmod_status, ret.entry_status}
        /\ Len(sent) = 2
        /\ sent[1][1] = "chmod"
        /\ sent[2][1] = "entrypoint_path"

\* C22 witness: chmod failed with 5, the entrypoint was still run and
\* ended with 0, and run_entrypoint returned 5.
C22_Witness ==
    /\ ret.call = "run_entrypoint"
    /\ ret.raised = "none"
    /\ ret.chmod_status = 5
    /\ ret.entry_status = 0
    /\ ret.exit_code = 5
    /\ Len(sent) = 2

\* C23: transfer_agent and run_entrypoint called on a connection that is
\* not connected are rejected by a check and send nothing to the qube.
C23_RejectedWhenNotConnected ==
    (ret.call \in {"transfer_agent", "run_entrypoint"}
     /\ ~ret.was_connected) =>
        /\ ret.raised = "AssertionError"
        /\ sent = <<>>

\* C26: the entrypoint is run with its path, --log and the level, and then
\* --no-refresh, --force-refresh, --remove-obsolete, each exactly when its
\* option is set, and nothing else.
C26_EntrypointArgv ==
    ret.call = "run_entrypoint" =>
        LET ns == ret.agent_args
            on(a) == a \in DOMAIN ns /\ ns[a]
        IN /\ Len(sent) = 2
           /\ sent[2] =
                <<"entrypoint_path", "--log", ns.log>>
                \o (IF on("no_refresh") THEN <<"--no-refresh">> ELSE <<>>)
                \o (IF on("force_refresh") THEN <<"--force-refresh">>
                    ELSE <<>>)
                \o (IF on("remove_obsolete") THEN <<"--remove-obsolete">>
                    ELSE <<>>)

\* C28: transfer_agent sends three commands, mkdir, the push of the one
\* archive and the unpacking, in this order, however many files the
\* source directory holds.
C28_ThreeTransferCommands ==
    (ret.call = "transfer_agent" /\ ret.raised = "none") =>
        /\ Len(sent) = 3
        /\ sent[1][1] = "mkdir"
        /\ sent[2][1] = "cat"
        /\ sent[3][1] = "tar"

\* C28 witness: transfer_agent has returned for a directory of two files.
C28_Witness ==
    /\ ret.call = "transfer_agent"
    /\ ret.raised = "none"
    /\ ret.files = 2
    /\ Len(sent) = 3

\* C25: cleanup is enabled for every session unless --no-cleanup is on the
\* command line, and disabled for every session when it is.
C25_CleanupUnlessNoCleanup ==
    \A n \in DomainNames :
        open[n] > 0 => (cleanup <=> "--no-cleanup" \notin argv)

\* ------------------------- properties of the pool's result handler
\* The exit codes of the results whose callback has returned.
CollectedCodes == {r.exit_code : r \in handler.ended}

\* What is on sys.stdout comes in one piece per qube.
NotInterleaved(out) ==
    \A i, k \in 1..Len(out) : \A j \in i..k :
        out[i].name = out[k].name => out[j].name = out[i].name

\* C29: at most one execution of collect_result is under way at any time;
\* the aggregate exit code is never below the exit code of a collected
\* result, and between two callbacks it is the maximum of 0 and the
\* collected exit codes; the writes of one qube's result are never split
\* by those of another, whatever the order the tasks end in.
C29_CollectorsNeverOverlap ==
    /\ Cardinality({h \in ResultHandlers : handler.pc[h] # "idle"}) <= 1
    /\ \A c \in CollectedCodes : exit_code >= c
    /\ (\A h \in ResultHandlers : handler.pc[h] = "idle") =>
           /\ exit_code \in CollectedCodes \cup {0}
           /\ \A c \in CollectedCodes \cup {0} : exit_code >= c
    /\ NotInterleaved(handler.stdout)

\* C29 witness: two tasks ended while a callback was running or waiting,
\* the result collected first had the larger exit code and its output
\* took three writes, and both results are on sys.stdout.
C29_Witness ==
    /\ handler.left = {}
    /\ Cardinality(handler.ended) = NumTargets
    /\ Len(handler.stdout) >= 5
    /\ handler.stdout[1].part = "header"
    /\ \E r1, r2 \in handler.ended :
         /\ r1.name = handler.stdout[1].name
         /\ r2.name # r1.name
         /\ r1.exit_code > r2.exit_code
         /\ exit_code = r1.exit_code

\* ----------------------------- properties of PackageManager.upgrade
\* C30: when upgrade has returned 0, every command and step it ran ended
\* with status 0; a nonzero status, positive or negative, of a step that
\* ran makes the returned code nonzero.
C30_ZeroOnlyWithoutError ==
    (agent.pc = "returned" /\ agent.returned = 0) =>
        \A i \in 1..Len(agent.ran) : agent.ran[i].status = 0

\* The commands of the refresh step and of the requirement step.
EarlySteps == {"refresh", "install requirements", "upgrade requirements"}

\* C33: with hard_fail set, once the refresh or a command of the
\* requirement installation has ended with a nonzero status, no command of
\* a later step is run (no requirement command after a failed refresh, no
\* upgrade after either), and upgrade returns a nonzero code.
C33_HardFailStops ==
    agent.hard_fail =>
        \A i \in 1..Len(agent.ran) :
            (agent.ran[i].step \in EarlySteps /\ agent.ran[i].status # 0) =>
                /\ \A j \in (i + 1)..Len(agent.ran) :
                      /\ agent.ran[j].step # "upgrade"
                      /\ agent.ran[i].step = "refresh" =>
                             agent.ran[j].step = "refresh"
                /\ agent.pc = "returned" => agent.returned # 0

\* ------------------------ properties of install_requirements
\* The number a version string of digits stands for.
RECURSIVE VersionNumber(_)
VersionNumber(v) ==
    IF v = <<>> THEN 0
    ELSE 10 * VersionNumber(SubSeq(v, 1, Len(v) - 1)) + v[Len(v)]

\* Every required package is installed at the required version or a
\* newer one.
Satisfied(requirements, curr_pkg) ==
    \A pkg \in Packages :
        requirements[pkg] # <<>> =>
            \E v \in curr_pkg[pkg] :
                VersionNumber(v) >= VersionNumber(requirements[pkg])

\* C31: install_requirements called on a package state that satisfies
\* every requirement runs no install and no upgrade command.
C31_NoCommandWhenSatisfied ==
    (reqs.pc = "returned" /\ Satisfied(reqs.requirements, reqs.curr_pkg))
        => reqs.cmds = <<>>

\* ---------------------------- properties of compare_packages
\* C35: the keys of installed, updated and removed are pairwise disjoint;
\* installed holds exactly the packages only in new, removed those only in
\* old, updated those in both with different versions, each with the
\* versions of the state it comes from; a state compared with itself
\* gives three empty maps.
C35_ChangesPartition ==
    packages.pc = "returned" =>
        LET old == packages.old
            new == packages.new
            ins == DOMAIN packages.installed
            upd == DOMAIN packages.updated
            rem == DOMAIN packages.removed
        IN /\ ins \cap upd = {} /\ ins \cap rem = {} /\ upd \cap rem = {}
           /\ \A pkg \in Packages :
                 /\ pkg \in ins <=> (new[pkg] # {} /\ old[pkg] = {})
                 /\ pkg \in rem <=> (old[pkg] # {} /\ new[pkg] = {})
                 /\ pkg \in upd <=> (old[pkg] # {} /\ new[pkg] # {}
                                      /\ old[pkg] # new[pkg])
           /\ \A pkg \in ins : packages.installed[pkg] = new[pkg]
           /\ \A pkg \in rem : packages.removed[pkg] = old[pkg]
           /\ \A pkg \in upd :
                 packages.updated[pkg] = [old |-> old[pkg], new |-> new[pkg]]
           /\ old = new => ins = {} /\ upd = {} /\ rem = {}

\* C35 witness: a comparison of a state that has packages with itself has
\* returned.
C35_Witness ==
    /\ packages.pc = "returned"
    /\ packages.old = packages.new
    /\ \A pkg \in Packages : packages.old[pkg] # {}

\* ------------------------------ properties of DNF.upgrade_internal
\* C36: when upgrade_internal has returned, the transaction was done only
\* if every signature check of the install set reported 0; if a check
\* reported a nonzero code the transaction was not done and the returned
\* code is not 0.
C36_TransactionOnlyIfSigned ==
    dnf.pc = "returned" =>
        LET failed == \E i \in 1..Len(dnf.checked) : dnf.checked[i] # 0
        IN /\ dnf.transaction => ~failed
           /\ failed => ~dnf.transaction /\ dnf.returned # 0

\* C36 witness: the install set had a package with a good signature and
\* one whose check failed, and upgrade_internal has returned.
C36_Witness ==
    /\ dnf.pc = "returned"
    /\ \E i, j \in 1..Len(dnf.checked) :
          dnf.checked[i] = 0 /\ dnf.checked[j] # 0
    /\ ~dnf.transaction

\* -------------------------------------- properties of DNF.refresh
\* C37: refresh returns the maximum of the status of clean and the status
\* of check-update, where a check-update status of 100 counts as 0.
C37_UpdatesAvailableIsNoError ==
    dnfrefresh.pc = "returned" =>
        dnfrefresh.return_code =
            Max(dnfrefresh.clean,
                IF dnfrefresh.check = UpdatesAvailable THEN 0
                ELSE dnfrefresh.check)

\* ------------------------------ properties of APTProgressReporter
\* C38: every value handed to the callback lies in the sub-range of the
\* phase it was reported in, and each reported value is greater than the
\* one reported before it.
C38_InRangeAndIncreasing ==
    /\ \A i \in 1..Len(progress.reported) :
          LET r == progress.reported[i]
          IN /\ Milli(PhaseRange(r.phase).start) <= r.value
             /\ r.value <= Milli(PhaseRange(r.phase).stop)
    /\ \A i \in 1..Len(progress.reported) - 1 :
          progress.reported[i].value < progress.reported[i + 1].value

\* ------------------- properties of _run_shell_command_in_qube
\* C39: when the entrypoint ended with a nonzero status, run_entrypoint
\* has no output of it, and what run_agent makes of the exit code and the
\* output under show_output is the ERROR status line.
C39_FailedEntrypointGivesErrorLine ==
    (/\ ret.call = "run_entrypoint"
     /\ ret.raised = "none"
     /\ ret.entry_status # 0)
    => /\ ret.entry_output = <<>>
       /\ return_data(TRUE, ret.output # <<>>, ret.exit_code)
              = "ERROR (exit code)"

====
